---- MODULE Spec2Model ----
(***************************************************************************)
(* Task-management backend: Task / User models (backend/src/models) and   *)
(* the task routes (backend/src/routes/tasks.py, routes/chat.py).          *)
(*                                                                         *)
(* Python floats are modelled as exact rationals <<n, d>> (d > 0, lowest   *)
(* terms).  Instants are integers counting ticks of SecondsPerTick         *)
(* seconds; NoTime stands for a None timestamp, NoUser for a None user id. *)
(* Fields that no modelled branch reads (title, description, created_at,   *)
(* updated_at, estimated_hours, ai_context) are left out of the records.   *)
(***************************************************************************)
EXTENDS Integers, Sequences, FiniteSets, TLC

VARIABLES store, clock, steps, telegram_configured, last, hist, obj, trail

vars == <<store, clock, steps, telegram_configured, last, hist, obj, trail>>

\* ---------------------------------------------------------------- bounds
MaxClock == 2
MaxTasks == 2
MaxSteps == 4
MaxFaultSteps == 2

\* ------------------------------------------------------------- constants
NoTime == -1
NoUser == 0
SecondsPerTick == 50000
SecondsPerHour == 3600
BaselineHours == 24
DefaultDifficulty == 3
AdminId == 1
TeamId == 2

UserIds == {AdminId, TeamId}
ValidStatuses == {"pending", "in_progress", "completed"}
ValidPriorities == {"low", "medium", "high", "urgent"}

\* ------------------------------------------------------------- rationals
RECURSIVE GCD(_, _)
GCD(a, b) == IF b = 0 THEN a ELSE GCD(b, a % b)

Abs(x) == IF x < 0 THEN -x ELSE x

Rat(n, d) ==
  LET g == GCD(Abs(n), Abs(d))
      s == IF d < 0 THEN -1 ELSE 1
  IN  IF n = 0 THEN <<0, 1>> ELSE <<s * (n \div g), s * (d \div g)>>

Zero == <<0, 1>>
RatInt(i) == <<i, 1>>
RatAdd(x, y) == Rat(x[1] * y[2] + y[1] * x[2], x[2] * y[2])
RatMul(x, y) == Rat(x[1] * y[1], x[2] * y[2])
RatDiv(x, y) == Rat(x[1] * y[2], x[2] * y[1])
RatLess(x, y) == x[1] * y[2] < y[1] * x[2]
RatMin(x, y) == IF RatLess(y, x) THEN y ELSE x
RatMax(x, y) == IF RatLess(x, y) THEN y ELSE x

\* Python round(a / b): nearest integer, ties to even (a >= 0, b > 0).
RoundHalfEven(a, b) ==
  LET q == a \div b
      r == a % b
  IN  IF 2 * r < b THEN q
      ELSE IF 2 * r > b THEN q + 1
      ELSE IF q % 2 = 0 THEN q ELSE q + 1

\* ------------------------------------------------------------ Task model
\* Task.__init__: started_at, completed_at stay None; actual_hours takes the
\* column default 0.0 when the row is inserted.
Task(priority, status, assigned_to, created_by, due_date, difficulty_rating) ==
  [ priority          |-> priority,
    status            |-> status,
    assigned_to       |-> assigned_to,
    created_by        |-> created_by,
    due_date          |-> due_date,
    started_at        |-> NoTime,
    completed_at      |-> NoTime,
    actual_hours      |-> Zero,
    difficulty_rating |-> difficulty_rating ]

\* Task.duration_hours at evaluation instant now.
duration_hours(t, now) ==
  IF t.started_at = NoTime THEN Zero
  ELSE LET end_time == IF t.completed_at # NoTime THEN t.completed_at ELSE now
           delta    == end_time - t.started_at
       IN  Rat(RoundHalfEven(delta * SecondsPerTick * 100, SecondsPerHour), 100)

\* Task.is_overdue at evaluation instant now.
is_overdue(t, now) ==
  IF t.due_date = NoTime \/ t.status = "completed" THEN FALSE
  ELSE now > t.due_date

\* Task.calculate_completion_score at evaluation instant now; estimated_hours
\* is the task's estimate, which no other method reads.
calculate_completion_score(t, estimated_hours, now) ==
  LET on_time    == IF ~is_overdue(t, now) THEN RatInt(20) ELSE Zero
      efficiency == RatDiv(estimated_hours, t.actual_hours)
      bonus      == IF /\ RatLess(Zero, estimated_hours)
                       /\ RatLess(Zero, t.actual_hours)
                       /\ ~RatLess(efficiency, RatInt(1))
                    THEN RatMin(RatInt(20), RatMul(efficiency, RatInt(10)))
                    ELSE Zero
      score == IF t.status = "completed"
               THEN RatAdd(RatAdd(RatAdd(RatInt(50), on_time), bonus),
                           RatInt(t.difficulty_rating * 2))
               ELSE IF t.status = "in_progress"
               THEN RatAdd(RatInt(25),
                           IF is_overdue(t, now) THEN RatInt(-10) ELSE Zero)
               ELSE Zero
  IN  RatMin(RatInt(100), RatMax(Zero, score))

start_task(t, now) ==
  IF t.status = "pending"
  THEN [t EXCEPT !.status = "in_progress", !.started_at = now]
  ELSE t

complete_task_no_hours(t, now) ==
  IF t.status \in {"pending", "in_progress"}
  THEN [t EXCEPT !.status = "completed", !.completed_at = now]
  ELSE t

complete_task(t, now) ==
  IF t.status \in {"pending", "in_progress"}
  THEN LET t1 == [t EXCEPT !.status = "completed", !.completed_at = now]
       IN  IF t1.started_at # NoTime
           THEN [t1 EXCEPT !.actual_hours = duration_hours(t1, now)]
           ELSE t1
  ELSE t

\* update_status whose reset branch forgets actual_hours.
update_status_keeps_hours(t, new_status, now1, now2) ==
  LET old_status == t.status
  IN  IF new_status = "in_progress" /\ old_status = "pending"
      THEN start_task(t, now1)
      ELSE IF new_status = "completed" /\ old_status \in {"pending", "in_progress"}
      THEN complete_task(IF old_status = "pending"
                         THEN [t EXCEPT !.started_at = now1] ELSE t, now2)
      ELSE IF new_status = "pending" /\ old_status \in {"in_progress", "completed"}
      THEN [t EXCEPT !.status = "pending", !.started_at = NoTime,
                     !.completed_at = NoTime]
      ELSE [t EXCEPT !.status = new_status]

\* Task.update_status; now1 is the instant read at line 113 / 140, now2 the
\* one read inside complete_task (now1 <= now2).
update_status(t, new_status, now1, now2) ==
  LET old_status == t.status
  IN  IF new_status = "in_progress" /\ old_status = "pending"
      THEN start_task(t, now1)
      ELSE IF new_status = "completed" /\ old_status \in {"pending", "in_progress"}
      THEN complete_task(IF old_status = "pending"
                         THEN [t EXCEPT !.started_at = now1] ELSE t, now2)
      ELSE IF new_status = "pending" /\ old_status \in {"in_progress", "completed"}
      THEN [t EXCEPT !.status = "pending", !.started_at = NoTime,
                     !.completed_at = NoTime, !.actual_hours = Zero]
      ELSE [t EXCEPT !.status = new_status]

\* update_status reporting a change on every call.
update_status_changed_always(t, new_status) == TRUE

\* Return value of Task.update_status.
update_status_changed(t, new_status) == t.status # new_status

\* ------------------------------------------------------------ User model
\* A registered user: the counters take their column defaults.
User(role) ==
  [ role                    |-> role,
    total_tasks_assigned    |-> 0,
    total_tasks_completed   |-> 0,
    average_completion_time |-> Zero,
    performance_score       |-> Zero ]

is_admin(u) == u.role = "admin"

\* The value User.calculate_performance_score returns.
performance_score_of(u) ==
  IF u.total_tasks_assigned = 0 THEN Zero
  ELSE LET completion_rate == RatMul(Rat(u.total_tasks_completed, u.total_tasks_assigned),
                                     RatInt(100))
           time_factor ==
             IF RatLess(Zero, u.average_completion_time)
             THEN RatMax(Rat(1, 10),
                         RatMin(RatInt(1), RatDiv(RatInt(BaselineHours),
                                                  u.average_completion_time)))
             ELSE RatInt(1)
           score == RatMul(completion_rate, time_factor)
       IN  RatMin(RatInt(100), RatMax(Zero, score))

\* User.calculate_performance_score: the early return at total_tasks_assigned = 0
\* leaves the stored performance_score as it was.
calculate_performance_score(u) ==
  IF u.total_tasks_assigned = 0 THEN u
  ELSE [u EXCEPT !.performance_score = performance_score_of(u)]

\* update_task_stats averaging the old average with the new sample.
update_task_stats_unweighted(u, h) ==
  LET n  == u.total_tasks_completed + 1
      u1 == [u EXCEPT !.total_tasks_completed = n]
      u2 == IF n = 1
            THEN [u1 EXCEPT !.average_completion_time = h]
            ELSE [u1 EXCEPT !.average_completion_time =
                    RatDiv(RatAdd(u.average_completion_time, h), RatInt(2))]
  IN  calculate_performance_score(u2)

\* User.update_task_stats(task_completed=True, completion_time_hours=h).
update_task_stats(u, h) ==
  LET n  == u.total_tasks_completed + 1
      u1 == [u EXCEPT !.total_tasks_completed = n]
      u2 == IF n = 1
            THEN [u1 EXCEPT !.average_completion_time = h]
            ELSE [u1 EXCEPT !.average_completion_time =
                    RatDiv(RatAdd(RatMul(u.average_completion_time, RatInt(n - 1)), h),
                           RatInt(n))]
  IN  calculate_performance_score(u2)

\* ------------------------------------------------------ TeamMember model
\* A team member row with the tasks its assigned_tasks relationship yields.
\* The methods only count those tasks and take the latest completed_at of
\* the ones with status 'done', so assigned_tasks is the record of counts
\* [pending, in_progress, done, other, overdue, last_done_at]: overdue counts
\* the tasks with due_date < now and status # 'done' at the evaluation
\* instant, last_done_at is NoTime when no 'done' task has a completed_at.
TeamMember(assigned_tasks, efficiency_rating, tasks_assigned, tasks_completed, last_task_completed) ==
  [ assigned_tasks      |-> assigned_tasks,
    efficiency_rating   |-> efficiency_rating,
    tasks_assigned      |-> tasks_assigned,
    tasks_completed     |-> tasks_completed,
    last_task_completed |-> last_task_completed ]

SecondsPerDay == 86400

get_overdue_tasks_count(m) == m.assigned_tasks.overdue

\* The query of get_overdue_tasks_count for the member with the given id on a
\* sequence of Task rows: Task.assigned_to == id, Task.due_date < now (never
\* true of a NULL due_date), Task.status != 'done'.  assigned_tasks.overdue
\* is the value of this query.
overdue_tasks_query(tasks, id, now) ==
  Cardinality({i \in 1..Len(tasks) :
                 /\ tasks[i].assigned_to = id
                 /\ tasks[i].due_date # NoTime
                 /\ tasks[i].due_date < now
                 /\ tasks[i].status # "done"})

\* (datetime.utcnow() - self.last_task_completed).days
get_recent_activity_bonus(m, now) ==
  IF m.last_task_completed = NoTime THEN 0
  ELSE LET days_since_last ==
             ((now - m.last_task_completed) * SecondsPerTick) \div SecondsPerDay
       IN  IF days_since_last <= 1 THEN 10
           ELSE IF days_since_last <= 3 THEN 5
           ELSE 0

\* round(x, 1) and round(x, 2) of a non-negative x.
Round1(x) == Rat(RoundHalfEven(x[1] * 10, x[2]), 10)
Round2(x) == Rat(RoundHalfEven(x[1] * 100, x[2]), 100)

calculate_efficiency(m, now) ==
  IF m.tasks_assigned = 0 THEN Zero
  ELSE LET completion_rate == RatMul(Rat(m.tasks_completed, m.tasks_assigned), RatInt(100))
           overdue_tasks   == get_overdue_tasks_count(m)
           overdue_penalty == IF overdue_tasks * 5 < 20 THEN overdue_tasks * 5 ELSE 20
           recent_bonus    == get_recent_activity_bonus(m, now)
           efficiency ==
             RatMax(Zero, RatMin(RatInt(100),
                                 RatAdd(completion_rate,
                                        RatInt(recent_bonus - overdue_penalty))))
       IN  Round1(efficiency)

\* TeamMember.update_performance_metrics: the efficiency is computed (line 83)
\* before last_task_completed is refreshed (lines 86-90).
update_performance_metrics(m, now) ==
  LET ts == m.assigned_tasks
      m1 == [m EXCEPT !.tasks_assigned =
                        ts.pending + ts.in_progress + ts.done + ts.other,
                      !.tasks_completed = ts.done]
      m2 == [m1 EXCEPT !.efficiency_rating = calculate_efficiency(m1, now)]
  IN  IF ts.done > 0 /\ ts.last_done_at # NoTime
      THEN [m2 EXCEPT !.last_task_completed = ts.last_done_at]
      ELSE m2

get_workload_score(m) ==
  LET ts == m.assigned_tasks
      workload_score    == RatAdd(RatInt(ts.pending), Rat(ts.in_progress * 3, 2))
      efficiency_factor == RatDiv(m.efficiency_rating, RatInt(100))
      adjusted_score    == RatDiv(workload_score, RatMax(efficiency_factor, Rat(1, 10)))
  IN  Round2(adjusted_score)

\* An assignment score without the priority factor.
final_score_no_penalty(workload_score, efficiency_rating, task_priority) ==
  RatAdd(workload_score, RatMul(RatInt(-1), RatDiv(efficiency_rating, RatInt(10))))

\* Lines 164-171: the assignment score of one member (lower is better).
final_score(workload_score, efficiency_rating, task_priority) ==
  LET efficiency_bonus == RatDiv(efficiency_rating, RatInt(10))
      priority_factor  == IF task_priority = "urgent"
                             /\ RatLess(efficiency_rating, RatInt(70))
                          THEN RatInt(2) ELSE RatInt(1)
  IN  RatAdd(RatMul(workload_score, priority_factor),
             RatMul(RatInt(-1), efficiency_bonus))

\* list.sort(key=lambda x: x[1]): a stable sort, here by inserting each entry
\* before the sorted later ones; an entry is
\* [member |-> position in the query result, score |-> final_score].
RECURSIVE insert_by_score(_, _)
insert_by_score(x, sorted) ==
  IF sorted = <<>> THEN <<x>>
  ELSE IF RatLess(Head(sorted).score, x.score)
  THEN <<Head(sorted)>> \o insert_by_score(x, Tail(sorted))
  ELSE <<x>> \o sorted

RECURSIVE sort_by_score(_)
sort_by_score(scored) ==
  IF scored = <<>> THEN <<>>
  ELSE insert_by_score(Head(scored), sort_by_score(Tail(scored)))

\* Lines 158-173 for the members from position i on.
RECURSIVE score_members(_, _, _, _)
score_members(team_members, i, task_priority, now) ==
  IF i > Len(team_members) THEN <<>>
  ELSE LET member == update_performance_metrics(team_members[i], now)
       IN  <<[member |-> i,
              score  |-> final_score(get_workload_score(member),
                                     member.efficiency_rating, task_priority)]>>
           \o score_members(team_members, i + 1, task_priority, now)

\* TeamMember.get_best_assignee_for_task: the position of the returned member
\* in TeamMember.query.all(), 0 for None.
get_best_assignee_for_task(team_members, task_priority, now) ==
  IF team_members = <<>> THEN 0
  ELSE LET scored_members ==
             sort_by_score(score_members(team_members, 1, task_priority, now))
       IN  IF scored_members # <<>> THEN scored_members[1].member ELSE 0

\* The rows after the call: every member's metrics were updated and committed.
refreshed_members(team_members, now) ==
  [i \in 1..Len(team_members) |-> update_performance_metrics(team_members[i], now)]

\* ------------------------------------------------- ChatGPTService: tasks
\* A response text is a sequence of tokens: "[" and "]", "T" an object with a
\* title and well-typed fields, "h" an object with a title whose
\* estimated_hours is a non-numeric string, "n" an object with a title whose
\* estimated_hours is null, "u" an object without a title, "j" another JSON
\* value that is not an object, "x" text that is not JSON.  The commas between
\* array elements are left out.
Tokens == {"[", "]", "T", "h", "n", "u", "j", "x"}

\* response.choices[0].message.content is None.
NoContent == <<"None">>

\* str.find / str.rfind: 0-based position of the first / last occurrence, -1
\* when there is none.
find(content, tok) ==
  IF \E i \in 1..Len(content) : content[i] = tok
  THEN (CHOOSE i \in 1..Len(content) :
          content[i] = tok /\ \A j \in 1..(i - 1) : content[j] # tok) - 1
  ELSE -1

rfind(content, tok) ==
  IF \E i \in 1..Len(content) : content[i] = tok
  THEN (CHOOSE i \in 1..Len(content) :
          content[i] = tok /\ \A j \in (i + 1)..Len(content) : content[j] # tok) - 1
  ELSE -1

\* content[start:end] for 0 <= start.
slice(content, start, end) == SubSeq(content, start + 1, end)

\* The bracket depth after each token of s, starting from depth d.
RECURSIVE depths(_, _)
depths(s, d) ==
  IF s = <<>> THEN <<>>
  ELSE LET d1 == IF Head(s) = "[" THEN d + 1
                 ELSE IF Head(s) = "]" THEN d - 1 ELSE d
       IN  <<d1>> \o depths(Tail(s), d1)

\* json.loads on a text that starts with "[": it succeeds when the text is one
\* array, and then yields the array's elements in order; a nested array is an
\* element that is not an object ("j").
json_loads_array(json_str) ==
  LET n  == Len(json_str)
      ds == depths(json_str, 0)
      ok == /\ n >= 2
            /\ json_str[1] = "["
            /\ \A i \in 1..n : json_str[i] # "x"
            /\ \A i \in 1..(n - 1) : ds[i] >= 1
            /\ ds[n] = 0
      at(i) == IF json_str[i] = "[" /\ ds[i] = 2 THEN <<"j">>
               ELSE IF json_str[i] \notin {"[", "]"} /\ ds[i] = 1 THEN <<json_str[i]>>
               ELSE <<>>
      elems[i \in 0..n] == IF i = 0 THEN <<>> ELSE elems[i - 1] \o at(i)
  IN  [ok |-> ok, value |-> IF ok THEN elems[n] ELSE <<>>]

AiTask == [title |-> "AI Generated Task", is_ai_generated |-> TRUE]

get_fallback_tasks ==
  << [title |-> "Code Review and Optimization", is_ai_generated |-> FALSE],
     [title |-> "Update Documentation", is_ai_generated |-> FALSE],
     [title |-> "Bug Investigation", is_ai_generated |-> FALSE] >>

\* Lines 313-325: the cleaned tasks of the parsed elements, or the exception
\* the conversion of an element raises.
RECURSIVE clean_tasks(_)
clean_tasks(tasks) ==
  IF tasks = <<>> THEN [raised |-> "", value |-> <<>>]
  ELSE LET rest == clean_tasks(Tail(tasks))
       IN  IF Head(tasks) = "h" THEN [raised |-> "ValueError", value |-> <<>>]
           ELSE IF Head(tasks) = "n" THEN [raised |-> "TypeError", value |-> <<>>]
           ELSE IF rest.raised # "" THEN rest
           ELSE IF Head(tasks) = "T"
           THEN [raised |-> "", value |-> <<AiTask>> \o rest.value]
           ELSE rest

\* ChatGPTService._parse_task_response; content is NoContent when the message
\* carries no text.  raised names an exception that leaves the method.
parse_task_response(content) ==
  IF content = NoContent THEN [raised |-> "AttributeError", value |-> <<>>]
  ELSE LET start_idx == find(content, "[")
           end_idx   == rfind(content, "]") + 1
       IN  IF start_idx # -1 /\ end_idx # -1
           THEN LET parsed  == json_loads_array(slice(content, start_idx, end_idx))
                    cleaned == clean_tasks(parsed.value)
                IN  IF ~parsed.ok \/ cleaned.raised = "ValueError"
                    THEN [raised |-> "", value |-> get_fallback_tasks]
                    ELSE cleaned
           ELSE [raised |-> "", value |-> get_fallback_tasks]

\* generate_task_suggestions without its except clause.
generate_task_suggestions_unguarded(service) ==
  IF ~service.configured THEN [raised |-> "", value |-> get_fallback_tasks]
  ELSE IF service.call = "fails" THEN [raised |-> "APIError", value |-> <<>>]
  ELSE parse_task_response(service.content)

\* ChatGPTService.generate_task_suggestions; service is
\* [configured, call, content]: whether a client exists, whether the API call
\* "fails" or "returns", and the text it returns.
generate_task_suggestions(service) ==
  IF ~service.configured THEN [raised |-> "", value |-> get_fallback_tasks]
  ELSE IF service.call = "fails" THEN [raised |-> "", value |-> get_fallback_tasks]
  ELSE LET tasks == parse_task_response(service.content)
       IN  IF tasks.raised # "" THEN [raised |-> "", value |-> get_fallback_tasks]
           ELSE tasks

\* ------------------------------------------- ChatGPTService: assignment
\* A candidate is the dict of a team member, of which the service reads
\* username, total_tasks_assigned and total_tasks_completed.  None is Python's
\* None where a username is expected.
None == "None"

Candidate(username, total_tasks_assigned, total_tasks_completed) ==
  [username              |-> username,
   total_tasks_assigned  |-> total_tasks_assigned,
   total_tasks_completed |-> total_tasks_completed]

current_workload(m) == m.total_tasks_assigned - m.total_tasks_completed

\* min_by_workload keeping the last of the members with the least key.
min_by_workload_last(team_members) ==
  team_members[CHOOSE i \in 1..Len(team_members) :
     /\ \A j \in 1..Len(team_members) :
          current_workload(team_members[i]) <= current_workload(team_members[j])
     /\ \A j \in (i + 1)..Len(team_members) :
          current_workload(team_members[j]) > current_workload(team_members[i])]

\* min(team_members, key=...): the first member, in input order, whose key no
\* other member undercuts.
min_by_workload(team_members) ==
  team_members[CHOOSE i \in 1..Len(team_members) :
     /\ \A j \in 1..Len(team_members) :
          current_workload(team_members[i]) <= current_workload(team_members[j])
     /\ \A j \in 1..(i - 1) :
          current_workload(team_members[j]) > current_workload(team_members[i])]

FallbackConfidence == 50

\* ChatGPTService._get_fallback_assignment (task_info is not read).
get_fallback_assignment(team_members) ==
  IF team_members = <<>>
  THEN [recommended_member |-> None, confidence |-> 0, alternative |-> None]
  ELSE [recommended_member |-> min_by_workload(team_members).username,
        confidence         |-> FallbackConfidence,
        alternative        |-> IF Len(team_members) > 1
                               THEN team_members[2].username ELSE None]

\* The text of an assignment answer is a sequence of tokens: "{" and "}", a
\* name n (the member "recommended_member": "n"), "null" (the member
\* "recommended_member": null) and "x" (text that is not JSON).  A "{" inside
\* an object opens the value of some other key.
Names == {"carol", "mallory"}

AssignTokens == {"{", "}", "null", "x"} \cup Names

RECURSIVE brace_depths(_, _)
brace_depths(s, d) ==
  IF s = <<>> THEN <<>>
  ELSE LET d1 == IF Head(s) = "{" THEN d + 1
                 ELSE IF Head(s) = "}" THEN d - 1 ELSE d
       IN  <<d1>> \o brace_depths(Tail(s), d1)

\* json.loads on the text cut out for an assignment: it succeeds when the
\* text is one object; of the object only the key recommended_member is kept,
\* the last of repeated keys winning.
json_loads_object(json_str) ==
  LET n  == Len(json_str)
      ds == brace_depths(json_str, 0)
      ok == /\ n >= 2
            /\ json_str[1] = "{"
            /\ \A i \in 1..n : json_str[i] # "x"
            /\ \A i \in 1..(n - 1) : ds[i] >= 1
            /\ ds[n] = 0
      top == {i \in 1..n : json_str[i] \in Names \cup {"null"} /\ ds[i] = 1}
      last_top == CHOOSE i \in top : \A j \in top : j <= i
  IN  [ok |-> ok,
       value |-> IF ok /\ top # {} /\ json_str[last_top] # "null"
                 THEN [recommended_member |-> json_str[last_top]]
                 ELSE [recommended_member |-> None]]

\* _parse_assignment_response returning whatever member the answer names.
parse_assignment_response_unvalidated(content, team_members) ==
  IF content = NoContent
  THEN [raised |-> "AttributeError", value |-> get_fallback_assignment(<<>>)]
  ELSE LET start_idx == find(content, "{")
           end_idx   == rfind(content, "}") + 1
           parsed    == json_loads_object(slice(content, start_idx, end_idx))
       IN  IF start_idx # -1 /\ end_idx # -1 /\ parsed.ok
           THEN [raised |-> "", value |-> parsed.value]
           ELSE [raised |-> "", value |-> get_fallback_assignment(team_members)]

\* ChatGPTService._parse_assignment_response; content is NoContent when the
\* message carries no text.  raised names an exception that leaves the method.
parse_assignment_response(content, team_members) ==
  IF content = NoContent
  THEN [raised |-> "AttributeError", value |-> get_fallback_assignment(<<>>)]
  ELSE LET start_idx   == find(content, "{")
           end_idx     == rfind(content, "}") + 1
           parsed      == json_loads_object(slice(content, start_idx, end_idx))
           recommended == parsed.value.recommended_member
       IN  IF /\ start_idx # -1 /\ end_idx # -1 /\ parsed.ok
              /\ recommended # None
              /\ \E i \in 1..Len(team_members) :
                    team_members[i].username = recommended
           THEN [raised |-> "", value |-> parsed.value]
           ELSE [raised |-> "", value |-> get_fallback_assignment(team_members)]

\* ChatGPTService.suggest_task_assignment; service is as for
\* generate_task_suggestions.
suggest_task_assignment(service, team_members) ==
  IF ~service.configured THEN get_fallback_assignment(team_members)
  ELSE IF service.call = "fails" THEN get_fallback_assignment(team_members)
  ELSE LET assignment == parse_assignment_response(service.content, team_members)
       IN  IF assignment.raised # "" THEN get_fallback_assignment(team_members)
           ELSE assignment.value

\* ------------------------------------------------------- ChatMessage
\* A ChatMessage row once inserted: the constructor sets user_id,
\* message_type, user_message and context, the column defaults give
\* tokens_used 0 and status 'pending', the other columns are NULL.
ChatMessage(user_id, message_type) ==
  [user_id               |-> user_id,
   message_type          |-> message_type,
   ai_response           |-> None,
   tokens_used           |-> 0,
   generated_tasks_count |-> 0,
   task_ids              |-> None,
   processed_at          |-> NoTime,
   status                |-> "pending",
   error_message         |-> None]

\* ChatMessage.mark_processed
mark_processed(m, ai_response, tokens_used, generated_tasks_count, task_ids, now) ==
  [m EXCEPT !.ai_response           = ai_response,
            !.tokens_used           = tokens_used,
            !.generated_tasks_count = generated_tasks_count,
            !.task_ids              = task_ids,
            !.status                = "processed",
            !.processed_at          = now]

\* ChatMessage.mark_failed
mark_failed(m, error_message, now) ==
  [m EXCEPT !.status        = "failed",
            !.error_message = error_message,
            !.processed_at  = now]

\* ----------------------------------------------------- request inputs
\* A request body is a function from the keys present to their values.  A
\* due_date is a string: "" (null), a well-formed ISO date or garbage; a
\* difficulty_rating is a JSON value handed to int().
HasKey(b, k) == k \in DOMAIN b

DateStrings == {"2024-01-01T00:00:00", "garbage"}

\* datetime.fromisoformat(s.replace('Z', '+00:00')): ok is FALSE on ValueError.
fromisoformat(s) ==
  IF s = "2024-01-01T00:00:00" THEN [ok |-> TRUE, value |-> 1]
  ELSE [ok |-> FALSE, value |-> NoTime]

\* int(x) on a JSON value: ok is FALSE on ValueError.
int_of(x) ==
  IF x = "3" THEN [ok |-> TRUE, value |-> DefaultDifficulty]
  ELSE IF x = "6" THEN [ok |-> TRUE, value |-> 6]
  ELSE [ok |-> FALSE, value |-> 0]

\* ------------------------------------------- TelegramService: templates
\* A text is a sequence of characters.  A rendered message is kept as the
\* sequence of its interpolated values, [field, text], in template order; the
\* fixed text of the template between them is left out.
\* The grave accent of the list is written GRAVE.
special_chars ==
  <<"_", "*", "[", "]", "(", ")", "~", "GRAVE", ">", "#", "+", "-", "=", "|", "{", "}",
    ".", "!">>

\* str.replace(char, escape marker + char)
RECURSIVE replace(_, _)
replace(text, char) ==
  IF text = <<>> THEN <<>>
  ELSE (IF Head(text) = char THEN <<"\\", char>> ELSE <<Head(text)>>)
       \o replace(Tail(text), char)

RECURSIVE escape_loop(_, _)
escape_loop(escaped_text, chars) ==
  IF chars = <<>> THEN escaped_text
  ELSE escape_loop(replace(escaped_text, Head(chars)), Tail(chars))

\* TelegramService._escape_markdown
escape_markdown(text) == IF text = <<>> THEN <<>> ELSE escape_loop(text, special_chars)

\* str(n) for a natural number n.
RECURSIVE decimal(_)
decimal(n) ==
  LET digit == <<"0", "1", "2", "3", "4", "5", "6", "7", "8", "9">>[(n % 10) + 1]
  IN  IF n < 10 THEN <<digit>> ELSE decimal(n \div 10) \o <<digit>>

\* A number is [float, tenths]: the int tenths / 10 or the float tenths / 10.
\* str(x) and f"{x}" print an int by its digits and a float with one decimal.
str(x) ==
  IF x.float THEN decimal(x.tenths \div 10) \o <<".">> \o decimal(x.tenths % 10)
  ELSE decimal(x.tenths \div 10)

\* f"{x:.1f}" and f"{x:.0f}" of a number with one decimal.
format_1f(x) == decimal(x.tenths \div 10) \o <<".">> \o decimal(x.tenths % 10)

format_0f(x) == decimal(RoundHalfEven(x.tenths, 10))

\* due_date_obj.strftime('%Y-%m-%d %H:%M') of the due date "2024-01-01T00:00:00"
strftime(due_date) ==
  <<"2", "0", "2", "4", "-", "0", "1", "-", "0", "1", " ", "0", "0", ":", "0", "0">>

\* str.title() and str.replace('_', ' ') leave the characters of the model's
\* alphabet as they are, up to case; '_' becomes ' '.
underscores_to_spaces(text) == [i \in 1..Len(text) |-> IF text[i] = "_" THEN " " ELSE text[i]]

\* q[:n]
first(q, n) == SubSeq(q, 1, IF Len(q) < n THEN Len(q) ELSE n)

Piece(field, text) == [field |-> field, text |-> text]

\* TelegramService._format_task_assignment_message
format_task_assignment_message(task_data, assignee_data) ==
  <<Piece("title", escape_markdown(task_data.title)),
    Piece("username", escape_markdown(assignee_data.username)),
    Piece("priority", escape_markdown(task_data.priority))>>
  \o (IF task_data.due_date # "" /\ fromisoformat(task_data.due_date).ok
      THEN <<Piece("due_date", strftime(task_data.due_date))>> ELSE <<>>)
  \o <<Piece("description", escape_markdown(task_data.description))>>

\* TelegramService._format_task_completion_message
format_task_completion_message(task_data, assignee_data) ==
  <<Piece("title", escape_markdown(task_data.title)),
    Piece("username", escape_markdown(assignee_data.username)),
    Piece("duration_hours",
          escape_markdown(IF task_data.duration_hours.tenths > 0
                          THEN format_1f(task_data.duration_hours)
                               \o <<" ", "h", "o", "u", "r", "s">>
                          ELSE <<"U", "n", "k", "n", "o", "w", "n">>)),
    Piece("completion_score", format_0f(task_data.completion_score))>>

\* TelegramService._format_task_status_message
format_task_status_message(task_data, old_status, new_status, assignee_data) ==
  <<Piece("title", escape_markdown(task_data.title)),
    Piece("username", escape_markdown(assignee_data.username)),
    Piece("old_status", escape_markdown(underscores_to_spaces(old_status))),
    Piece("new_status", escape_markdown(underscores_to_spaces(new_status)))>>

\* TelegramService._format_performance_report_message
format_performance_report_message(report_data) ==
  <<Piece("timeframe", escape_markdown(report_data.timeframe)),
    Piece("overall_score", str(report_data.overall_score)),
    Piece("productivity_trend", escape_markdown(report_data.productivity_trend))>>
  \o [i \in 1..Len(first(report_data.key_insights, 3)) |->
        Piece("key_insights", escape_markdown(report_data.key_insights[i]))]

\* TelegramService._format_ai_task_generation_message
format_ai_task_generation_message(tasks, context) ==
  <<Piece("task_count", decimal(Len(tasks))),
    Piece("context", IF context # <<>> THEN escape_markdown(context)
                     ELSE <<"A", "I">>)>>
  \o [i \in 1..Len(first(tasks, 5)) |->
        Piece("title", escape_markdown(tasks[i].title))]

\* TelegramService.send_custom_message: the message it formats.
format_custom_message(title, content) ==
  <<Piece("title", escape_markdown(title)), Piece("content", escape_markdown(content))>>

\* ------------------------------------------------------ request context
\* The state of one request: the session's view of the rows (tasks, users),
\* the response status (0 while the handler is still running), whether
\* db.session.commit() has run, the notifications handed to the messaging
\* service, and whether the session held uncommitted changes when the handler
\* ended.
Begin(op, id) ==
  [ tasks     |-> store.tasks,
    users     |-> store.users,
    op        |-> op,
    task      |-> id,
    resp      |-> 0,
    committed |-> FALSE,
    kinds     |-> {},
    dirty     |-> FALSE ]

Running(ctx) == ctx.resp = 0

IsDirty(ctx) == ctx.tasks # store.tasks \/ ctx.users # store.users

\* return jsonify(...), code -- an early return: nothing is committed or rolled
\* back by the handler itself.
respond(ctx, code) ==
  [ctx EXCEPT !.resp = code, !.dirty = IsDirty(ctx) /\ ~ctx.committed]

\* except Exception: db.session.rollback(); return ..., 500
rollback(ctx) ==
  [ctx EXCEPT !.resp = 500, !.dirty = IsDirty(ctx) /\ ~ctx.committed,
              !.tasks = store.tasks, !.users = store.users]

\* The rows in the database once the request is over: what was committed; a
\* session left uncommitted is removed with the request's application context
\* (db = SQLAlchemy(), scoped session), which discards its changes.
teardown(ctx) ==
  IF ctx.committed THEN [tasks |-> ctx.tasks, users |-> ctx.users] ELSE store

\* db.session.commit(); a failing commit raises into the handler's except.
commit(ctx, env) ==
  IF ~Running(ctx) THEN ctx
  ELSE IF env.commit_fails THEN rollback(ctx)
  ELSE [ctx EXCEPT !.committed = TRUE]

\* A dispatch whose exception escapes the handler: the outer except rolls the
\* session back when nothing was committed yet.
notify_propagating(ctx, kind, env) ==
  IF ~telegram_configured THEN ctx
  ELSE IF env.notif = "raise" /\ ~ctx.committed
  THEN rollback([ctx EXCEPT !.kinds = @ \cup {kind}])
  ELSE [ctx EXCEPT !.kinds = @ \cup {kind}]

\* if telegram_service.is_available(): try: send_...(...) except Exception: print
\* A failed or raising dispatch is logged and nothing else happens.
notify(ctx, kind, env) ==
  IF ~telegram_configured THEN ctx
  ELSE [ctx EXCEPT !.kinds = @ \cup {kind}]

UserExists(ctx, u) == u \in DOMAIN ctx.users

NewTaskId(tasks) ==
  IF DOMAIN tasks = {} THEN 1
  ELSE (CHOOSE i \in DOMAIN tasks : \A j \in DOMAIN tasks : j <= i) + 1

Get(b, k, default) == IF HasKey(b, k) THEN b[k] ELSE default

\* ---------------------------------------------------- routes: create_task
\* Lines 154-170 and the argument conversions of lines 181-182.
create_task_validate(ctx, b) ==
  IF ~HasKey(b, "title") THEN respond(ctx, 400)
  ELSE IF Get(b, "due_date", "") # "" /\ ~fromisoformat(b["due_date"]).ok
  THEN respond(ctx, 400)
  ELSE IF ~int_of(Get(b, "difficulty_rating", "3")).ok THEN rollback(ctx)
  ELSE ctx

\* Lines 172-188: Task(...), db.session.add, flush.
create_task_insert(ctx, caller, b) ==
  IF ~Running(ctx) THEN ctx
  ELSE LET id == NewTaskId(ctx.tasks)
           due == IF Get(b, "due_date", "") # ""
                  THEN fromisoformat(b["due_date"]).value ELSE NoTime
           t == Task(Get(b, "priority", "medium"), Get(b, "status", "pending"),
                     Get(b, "assigned_to", NoUser), caller, due,
                     int_of(Get(b, "difficulty_rating", "3")).value)
       IN  [ctx EXCEPT !.tasks = (id :> t) @@ ctx.tasks, !.task = id]

\* create_task that notifies the assignee without counting the task.
create_task_assignee_uncounted(ctx, env) ==
  IF ~Running(ctx) THEN ctx
  ELSE LET a == ctx.tasks[ctx.task].assigned_to
       IN  IF a # NoUser /\ UserExists(ctx, a)
           THEN notify(ctx, "assignment", env)
           ELSE ctx

\* Lines 190-205: the assignee's counter and the assignment notification.
create_task_assignee(ctx, env) ==
  IF ~Running(ctx) THEN ctx
  ELSE LET a == ctx.tasks[ctx.task].assigned_to
       IN  IF a # NoUser /\ UserExists(ctx, a)
           THEN notify([ctx EXCEPT !.users[a].total_tasks_assigned = @ + 1],
                       "assignment", env)
           ELSE ctx

success(ctx, code) == IF Running(ctx) THEN [ctx EXCEPT !.resp = code] ELSE ctx

create_task(caller, b, env) ==
  success(commit(create_task_assignee(
            create_task_insert(create_task_validate(Begin("create_task", 0), b),
                               caller, b), env), env), 201)

\* ---------------------------------------------------- routes: update_task
can_edit(ctx, caller, t) ==
  is_admin(ctx.users[caller]) \/ t.created_by = caller \/ t.assigned_to = caller

\* Lines 231-256: lookup, permission, empty body.
update_task_lookup(ctx, caller, b) ==
  IF ctx.task \notin DOMAIN ctx.tasks THEN respond(ctx, 404)
  ELSE IF ~can_edit(ctx, caller, ctx.tasks[ctx.task]) THEN respond(ctx, 403)
  ELSE IF DOMAIN b = {} THEN respond(ctx, 400)
  ELSE ctx

\* Lines 269-270.
update_task_priority(ctx, b) ==
  IF ~Running(ctx) \/ ~HasKey(b, "priority") THEN ctx
  ELSE [ctx EXCEPT !.tasks[ctx.task].priority = b["priority"]]

\* Lines 272-304: the status change and the completion bookkeeping.
update_task_status(ctx, b, env, now) ==
  IF ~Running(ctx) \/ ~HasKey(b, "status") THEN ctx
  ELSE LET id         == ctx.task
           t          == ctx.tasks[id]
           old_status == t.status
           new_status == b["status"]
           t1         == update_status(t, new_status, now, now)
           c1         == [ctx EXCEPT !.tasks[id] = t1]
           a          == t1.assigned_to
       IN  IF ~update_status_changed(t, new_status) THEN c1
           ELSE IF new_status = "completed" /\ old_status # "completed"
           THEN IF a # NoUser /\ UserExists(ctx, a)
                THEN notify([c1 EXCEPT !.users[a] =
                               update_task_stats(ctx.users[a], duration_hours(t1, now))],
                            "completion", env)
                ELSE c1
           ELSE IF old_status = "completed" /\ new_status # "completed"
           THEN IF a # NoUser /\ UserExists(ctx, a)
                   /\ ctx.users[a].total_tasks_completed > 0
                THEN [c1 EXCEPT !.users[a] =
                        calculate_performance_score(
                          [ctx.users[a] EXCEPT !.total_tasks_completed = @ - 1])]
                ELSE c1
           ELSE c1

\* Lines 306-333: reassignment; old_assigned_to is the value read at line 260.
update_task_assignee(ctx, b, env) ==
  IF ~Running(ctx) \/ ~HasKey(b, "assigned_to") THEN ctx
  ELSE LET id              == ctx.task
           old_assigned_to == ctx.tasks[id].assigned_to
           new_assigned_to == b["assigned_to"]
           c1 == IF old_assigned_to # NoUser /\ UserExists(ctx, old_assigned_to)
                    /\ ctx.users[old_assigned_to].total_tasks_assigned > 0
                 THEN [ctx EXCEPT !.users[old_assigned_to].total_tasks_assigned = @ - 1]
                 ELSE ctx
           c2 == IF new_assigned_to # NoUser /\ UserExists(ctx, new_assigned_to)
                 THEN notify([c1 EXCEPT !.users[new_assigned_to].total_tasks_assigned = @ + 1],
                             "assignment", env)
                 ELSE c1
       IN  IF new_assigned_to = old_assigned_to THEN ctx
           ELSE [c2 EXCEPT !.tasks[id].assigned_to = new_assigned_to]

\* Lines 335-345: a malformed date returns 400 from the middle of the handler.
update_task_due_date_committed(ctx, b) ==
  IF ~Running(ctx) \/ ~HasKey(b, "due_date") THEN ctx
  ELSE IF b["due_date"] = "" THEN [ctx EXCEPT !.tasks[ctx.task].due_date = NoTime]
  ELSE IF ~fromisoformat(b["due_date"]).ok
  THEN respond([ctx EXCEPT !.committed = TRUE], 400)
  ELSE [ctx EXCEPT !.tasks[ctx.task].due_date = fromisoformat(b["due_date"]).value]

update_task_due_date(ctx, b) ==
  IF ~Running(ctx) \/ ~HasKey(b, "due_date") THEN ctx
  ELSE IF b["due_date"] = "" THEN [ctx EXCEPT !.tasks[ctx.task].due_date = NoTime]
  ELSE IF ~fromisoformat(b["due_date"]).ok THEN respond(ctx, 400)
  ELSE [ctx EXCEPT !.tasks[ctx.task].due_date = fromisoformat(b["due_date"]).value]

\* Lines 350-351: int() raises ValueError into the handler's except.
update_task_difficulty(ctx, b) ==
  IF ~Running(ctx) \/ ~HasKey(b, "difficulty_rating") THEN ctx
  ELSE IF ~int_of(b["difficulty_rating"]).ok THEN rollback(ctx)
  ELSE [ctx EXCEPT !.tasks[ctx.task].difficulty_rating = int_of(b["difficulty_rating"]).value]

\* Lines 356-368: the status notification, sent after the commit.
update_task_status_notice(ctx, old_status, env) ==
  IF ~Running(ctx) THEN ctx
  ELSE LET t == ctx.tasks[ctx.task]
       IN  IF old_status # t.status /\ t.assigned_to # NoUser
              /\ UserExists(ctx, t.assigned_to)
           THEN notify(ctx, "status_update", env)
           ELSE ctx

update_task(caller, id, b, env, now) ==
  LET c0 == update_task_lookup(Begin("update_task", id), caller, b)
      old_status == IF Running(c0) THEN c0.tasks[id].status ELSE ""
      c1 == update_task_priority(c0, b)
      c2 == update_task_status(c1, b, env, now)
      c3 == update_task_assignee(c2, b, env)
      c4 == update_task_due_date(c3, b)
      c5 == update_task_difficulty(c4, b)
      c6 == commit(c5, env)
      c7 == update_task_status_notice(c6, old_status, env)
  IN  success(c7, 200)

\* --------------------------------------------- routes: bulk_update_tasks
\* Lines 594-631 for one task of the query result.
bulk_update_one(ctx, caller, id, updates, now) ==
  LET t == ctx.tasks[id]
  IN  IF ~can_edit(ctx, caller, t) THEN ctx
      ELSE LET t1 == IF HasKey(updates, "status")
                     THEN update_status(t, updates["status"], now, now) ELSE t
               t2 == IF HasKey(updates, "priority")
                     THEN [t1 EXCEPT !.priority = updates["priority"]] ELSE t1
               c2 == [ctx EXCEPT !.tasks[id] = t2]
               old_assigned_to == t2.assigned_to
               new_assigned_to == updates["assigned_to"]
               c3 == IF old_assigned_to # NoUser /\ UserExists(c2, old_assigned_to)
                        /\ c2.users[old_assigned_to].total_tasks_assigned > 0
                     THEN [c2 EXCEPT !.users[old_assigned_to].total_tasks_assigned = @ - 1]
                     ELSE c2
               c4 == IF new_assigned_to # NoUser /\ UserExists(c3, new_assigned_to)
                     THEN [c3 EXCEPT !.users[new_assigned_to].total_tasks_assigned = @ + 1]
                     ELSE c3
           IN  IF HasKey(updates, "assigned_to") /\ old_assigned_to # new_assigned_to
               THEN [c4 EXCEPT !.tasks[id].assigned_to = new_assigned_to]
               ELSE c2

MinOf(S) == CHOOSE i \in S : \A j \in S : i <= j

\* The loop of line 594 over Task.query.filter(Task.id.in_(task_ids)).all(),
\* rows in primary-key order.
RECURSIVE bulk_update_loop(_, _, _, _, _)
bulk_update_loop(ctx, caller, ids, updates, now) ==
  IF ids = {} THEN ctx
  ELSE LET id == MinOf(ids)
       IN  bulk_update_loop(bulk_update_one(ctx, caller, id, updates, now),
                            caller, ids \ {id}, updates, now)

\* Lines 574-639.
bulk_update_tasks(caller, task_ids, updates, env, now) ==
  LET c0 == Begin("bulk_update_tasks", 0)
      c1 == IF task_ids = {} THEN respond(c0, 400)
            ELSE bulk_update_loop(c0, caller, task_ids \cap DOMAIN c0.tasks, updates, now)
  IN  success(commit(c1, env), 200)

\* ---------------------------------------------------- routes: delete_task
\* Lines 392-404.
delete_task_lookup(ctx, caller) ==
  IF ctx.task \notin DOMAIN ctx.tasks THEN respond(ctx, 404)
  ELSE IF ~is_admin(ctx.users[caller]) /\ ctx.tasks[ctx.task].created_by # caller
  THEN respond(ctx, 403)
  ELSE ctx

\* Lines 406-419.
delete_task_apply(ctx) ==
  IF ~Running(ctx) THEN ctx
  ELSE LET id == ctx.task
           t  == ctx.tasks[id]
           a  == t.assigned_to
           u  == ctx.users[a]
           u1 == IF u.total_tasks_assigned > 0
                 THEN [u EXCEPT !.total_tasks_assigned = @ - 1] ELSE u
           u2 == IF t.status = "completed" /\ u1.total_tasks_completed > 0
                 THEN [u1 EXCEPT !.total_tasks_completed = @ - 1] ELSE u1
           c1 == IF a # NoUser /\ UserExists(ctx, a)
                 THEN [ctx EXCEPT !.users[a] = calculate_performance_score(u2)]
                 ELSE ctx
       IN  [c1 EXCEPT !.tasks = [i \in DOMAIN ctx.tasks \ {id} |-> ctx.tasks[i]]]

delete_task(caller, id, env) ==
  success(commit(delete_task_apply(delete_task_lookup(Begin("delete_task", id), caller)),
                 env), 200)

\* ------------------------------------------------ routes: generate_ai_tasks
\* Lines 66-113 of routes/chat.py for one generated task; a is the user the
\* assignment suggestion names with confidence above 70 (NoUser when it names
\* none or is not confident enough).
generate_ai_one(ctx, caller, a, env) ==
  LET id == NewTaskId(ctx.tasks)
      assigned == a # NoUser /\ UserExists(ctx, a)
      t  == Task("medium", "pending", IF assigned THEN a ELSE NoUser, caller, NoTime,
                 DefaultDifficulty)
      c1 == IF assigned
            THEN [ctx EXCEPT !.users[a].total_tasks_assigned = @ + 1] ELSE ctx
      c2 == [c1 EXCEPT !.tasks = (id :> t) @@ c1.tasks, !.task = id]
  IN  IF assigned THEN notify(c2, "assignment", env) ELSE c2

RECURSIVE generate_ai_loop(_, _, _, _)
generate_ai_loop(ctx, caller, plan, env) ==
  IF plan = <<>> THEN ctx
  ELSE generate_ai_loop(generate_ai_one(ctx, caller, Head(plan), env),
                        caller, Tail(plan), env)

\* Lines 27-137 of routes/chat.py with the AI service configured; plan lists
\* the suggested assignee of each generated task when create_tasks is set and
\* is empty when it is not.
generate_ai_tasks(caller, plan, env) ==
  LET c0 == Begin("generate_ai_tasks", 0)
  IN  IF ~is_admin(c0.users[caller]) THEN respond(c0, 403)
      ELSE IF plan = <<>> THEN success(c0, 200)
      ELSE LET c1 == commit(generate_ai_loop(c0, caller, plan, env), env)
           IN  success(IF Running(c1) THEN notify(c1, "ai_generation", env) ELSE c1, 200)

\* ------------------------------------------------------------ the system
Users0 == (AdminId :> User("admin")) @@ (TeamId :> User("team"))

NoTasks == [i \in {} |-> 0]

NoRequest ==
  [ op |-> "none", task |-> 0, resp |-> 0, committed |-> FALSE, kinds |-> {},
    dirty |-> FALSE, notif |-> "none", invalid |-> FALSE ]

Task0 == Task("medium", "pending", NoUser, AdminId, NoTime, DefaultDifficulty)

\* What a finished request leaves for the observer.
Outcome(ctx, env, invalid) ==
  [ op |-> ctx.op, task |-> ctx.task, resp |-> ctx.resp, committed |-> ctx.committed,
    kinds |-> ctx.kinds, dirty |-> ctx.dirty,
    notif |-> IF ctx.kinds = {} THEN "none" ELSE env.notif,
    invalid |-> invalid ]

\* What the run so far has done to the store: how many tasks were ever
\* inserted, and whether a stored task ever changed its assignee.
Record(before, after) ==
  [ created    |-> hist.created
                   + Cardinality(DOMAIN after.tasks \ DOMAIN before.tasks),
    reassigned |-> hist.reassigned
                   \/ \E i \in DOMAIN after.tasks \cap DOMAIN before.tasks :
                         after.tasks[i].assigned_to # before.tasks[i].assigned_to ]

Finish(ctx, env, invalid) ==
  /\ store' = teardown(ctx)
  /\ last' = Outcome(ctx, env, invalid)
  /\ hist' = Record(store, teardown(ctx))
  /\ steps' = steps + 1
  /\ UNCHANGED <<clock, telegram_configured, obj, trail>>

\* Whether a request body carries a value the data model does not admit.
InvalidBody(b) ==
  \/ HasKey(b, "priority") /\ b["priority"] \notin ValidPriorities
  \/ HasKey(b, "status") /\ b["status"] \notin ValidStatuses
  \/ HasKey(b, "due_date") /\ b["due_date"] # "" /\ ~fromisoformat(b["due_date"]).ok
  \/ HasKey(b, "difficulty_rating")
     /\ (~int_of(b["difficulty_rating"]).ok
         \/ int_of(b["difficulty_rating"]).value \notin 1..5)

\* ------------------------------------------------------------ input sets
StatusInputs == ValidStatuses \cup {"archived"}
AssigneeInputs == {NoUser} \cup UserIds
CoreCallers == {AdminId}
FaultCallers == UserIds

NoFault == [notif |-> "ok", commit_fails |-> FALSE]
CoreEnvs == {NoFault}
FaultEnvs ==
  {[notif |-> n, commit_fails |-> FALSE] : n \in {"ok", "fail", "raise"}}
  \cup {[notif |-> "ok", commit_fails |-> TRUE]}

CoreCreateBodies ==
  {[title |-> "t", status |-> s, assigned_to |-> a] :
     s \in {"pending", "completed"}, a \in AssigneeInputs}

CoreUpdateBodies ==
  {[status |-> s] : s \in StatusInputs}
  \cup {[assigned_to |-> a] : a \in AssigneeInputs}
  \cup {[status |-> s, assigned_to |-> a] : s \in {"pending", "completed"}, a \in UserIds}

CoreBulkUpdates == CoreUpdateBodies

FieldCreateBodies ==
  {[title |-> "t"], [assigned_to |-> TeamId],
   [title |-> "t", assigned_to |-> TeamId],
   [title |-> "t", assigned_to |-> TeamId, status |-> "completed"],
   [title |-> "t", assigned_to |-> TeamId, priority |-> "bogus"],
   [title |-> "t", assigned_to |-> TeamId, status |-> "archived"],
   [title |-> "t", assigned_to |-> TeamId, due_date |-> "garbage"],
   [title |-> "t", assigned_to |-> AdminId, due_date |-> "2024-01-01T00:00:00"],
   [title |-> "t", assigned_to |-> TeamId, difficulty_rating |-> "6"],
   [title |-> "t", assigned_to |-> TeamId, difficulty_rating |-> "abc"]}

FieldUpdateBodies ==
  {NoTasks,
   [status |-> "completed"], [status |-> "archived"], [status |-> "pending"],
   [assigned_to |-> AdminId], [assigned_to |-> NoUser],
   [priority |-> "bogus"], [difficulty_rating |-> "6"],
   [due_date |-> "2024-01-01T00:00:00"],
   [status |-> "completed", due_date |-> "garbage"],
   [assigned_to |-> AdminId, due_date |-> "garbage"],
   [assigned_to |-> AdminId, difficulty_rating |-> "abc"],
   [status |-> "completed", assigned_to |-> AdminId]}

FieldBulkUpdates ==
  {[status |-> "completed", assigned_to |-> AdminId], [priority |-> "bogus"]}

\* --------------------------------------------------------------- actions
CreateTask(callers, bodies, envs, bound) ==
  /\ steps < bound
  /\ Cardinality(DOMAIN store.tasks) < MaxTasks
  /\ \E caller \in callers, b \in bodies, env \in envs :
       Finish(create_task(caller, b, env), env, InvalidBody(b))

UpdateTask(callers, bodies, envs, bound) ==
  /\ steps < bound
  /\ \E caller \in callers, id \in 1..MaxTasks, b \in bodies, env \in envs :
       Finish(update_task(caller, id, b, env, clock), env, InvalidBody(b))

BulkUpdateTasks(callers, bodies, envs, bound) ==
  /\ steps < bound
  /\ \E caller \in callers, ids \in SUBSET (1..MaxTasks), b \in bodies, env \in envs :
       Finish(bulk_update_tasks(caller, ids, b, env, clock), env, InvalidBody(b))

DeleteTask(callers, envs, bound) ==
  /\ steps < bound
  /\ \E caller \in callers, id \in 1..MaxTasks, env \in envs :
       Finish(delete_task(caller, id, env), env, FALSE)

CorePlans == UNION {[1..k -> {NoUser, TeamId}] : k \in 0..MaxTasks}
FaultPlans == {<<>>, <<TeamId>>}

GenerateAiTasks(callers, plans, envs, bound) ==
  /\ steps < bound
  /\ \E caller \in callers, env \in envs, plan \in plans :
       /\ Len(plan) + Cardinality(DOMAIN store.tasks) <= MaxTasks
       /\ Finish(generate_ai_tasks(caller, plan, env), env, FALSE)

\* Time passes between requests.
Tick ==
  /\ clock < MaxClock
  /\ clock' = clock + 1
  /\ UNCHANGED <<store, steps, telegram_configured, last, hist, obj, trail>>

Init ==
  /\ store = [tasks |-> NoTasks, users |-> Users0]
  /\ clock = 0
  /\ steps = 0
  /\ telegram_configured = FALSE
  /\ last = NoRequest
  /\ hist = [created |-> 0, reassigned |-> FALSE]
  /\ obj = Task0
  /\ trail = <<>>

Next ==
  \/ CreateTask(CoreCallers, CoreCreateBodies, CoreEnvs, MaxSteps)
  \/ UpdateTask(CoreCallers, CoreUpdateBodies, CoreEnvs, MaxSteps)
  \/ BulkUpdateTasks(CoreCallers, CoreBulkUpdates, CoreEnvs, MaxSteps)
  \/ DeleteTask(CoreCallers, CoreEnvs, MaxSteps)
  \/ GenerateAiTasks(CoreCallers, CorePlans, CoreEnvs, MaxSteps)
  \/ Tick

Spec == Init /\ [][Next]_vars

\* The same routes under faults: a configured messaging service whose
\* dispatches may fail or raise, failing commits, malformed request values,
\* callers of either role.
FaultInit ==
  /\ store = [tasks |-> NoTasks, users |-> Users0]
  /\ clock = 0
  /\ steps = 0
  /\ telegram_configured = TRUE
  /\ last = NoRequest
  /\ hist = [created |-> 0, reassigned |-> FALSE]
  /\ obj = Task0
  /\ trail = <<>>

FaultNext ==
  \/ CreateTask(FaultCallers, FieldCreateBodies, FaultEnvs, MaxFaultSteps)
  \/ UpdateTask(FaultCallers, FieldUpdateBodies, FaultEnvs, MaxFaultSteps)
  \/ BulkUpdateTasks(FaultCallers, FieldBulkUpdates, FaultEnvs, MaxFaultSteps)
  \/ DeleteTask(FaultCallers, FaultEnvs, MaxFaultSteps)
  \/ GenerateAiTasks(FaultCallers, FaultPlans, FaultEnvs, MaxFaultSteps)
  \/ Tick

FaultSpec == FaultInit /\ [][FaultNext]_vars

\* ------------------------------------------------- a Task object on its own
\* The methods of one Task object called directly; trail keeps the last two
\* update_status calls (status before the call, status asked for).
KeepLast2(q) == IF Len(q) > 2 THEN Tail(q) ELSE q

TaskInit ==
  /\ store = [tasks |-> NoTasks, users |-> Users0]
  /\ clock = 0
  /\ steps = 0
  /\ telegram_configured = FALSE
  /\ last = NoRequest
  /\ hist = [created |-> 0, reassigned |-> FALSE]
  /\ obj \in {Task("medium", s, NoUser, AdminId, NoTime, DefaultDifficulty) :
                s \in StatusInputs}
  /\ trail = <<>>

ObjUpdateStatus ==
  \E new_status \in StatusInputs, e \in {0, 1} :
    /\ clock + e <= MaxClock
    /\ obj' = update_status(obj, new_status, clock, clock + e)
    /\ clock' = clock + e
    /\ trail' = KeepLast2(Append(trail, [from |-> obj.status, to |-> new_status]))
    /\ UNCHANGED <<store, steps, telegram_configured, last, hist>>

ObjStartTask ==
  /\ obj' = start_task(obj, clock)
  /\ trail' = <<>>
  /\ UNCHANGED <<store, clock, steps, telegram_configured, last, hist>>

ObjCompleteTask ==
  /\ obj' = complete_task(obj, clock)
  /\ trail' = <<>>
  /\ UNCHANGED <<store, clock, steps, telegram_configured, last, hist>>

TaskNext == ObjUpdateStatus \/ ObjStartTask \/ ObjCompleteTask \/ Tick

TaskSpec == TaskInit /\ [][TaskNext]_vars

\* The same calls on a Task that may carry a due date.
DueDates == {NoTime, 1}

ScoreInit ==
  /\ store = [tasks |-> NoTasks, users |-> Users0]
  /\ clock = 0
  /\ steps = 0
  /\ telegram_configured = FALSE
  /\ last = NoRequest
  /\ hist = [created |-> 0, reassigned |-> FALSE]
  /\ obj \in {Task("medium", "pending", a, AdminId, d, DefaultDifficulty) :
                a \in {NoUser, TeamId}, d \in DueDates}
  /\ trail = <<>>

ScoreSpec == ScoreInit /\ [][TaskNext]_vars

\* ------------------------------------------- status requests on the routes
\* create_task for an assigned task and update_task with a status alone, by
\* the admin, without faults; trail keeps the last two status requests (the
\* status the task had, the status asked for).
MaxCompletionSteps == 4

AssignedCreateBodies == {[title |-> "t", assigned_to |-> a] : a \in UserIds}

RequestStatus ==
  /\ steps < MaxCompletionSteps
  /\ \E id \in 1..MaxTasks, s \in ValidStatuses :
       LET ctx == update_task(AdminId, id, [status |-> s], NoFault, clock)
       IN  /\ store' = teardown(ctx)
           /\ last' = Outcome(ctx, NoFault, FALSE)
           /\ hist' = Record(store, teardown(ctx))
           /\ steps' = steps + 1
           /\ trail' = KeepLast2(Append(trail,
                          [from |-> IF id \in DOMAIN store.tasks
                                    THEN store.tasks[id].status ELSE "none",
                           to   |-> s]))
           /\ UNCHANGED <<clock, telegram_configured, obj>>

CompletionNext ==
  \/ CreateTask(CoreCallers, AssignedCreateBodies, CoreEnvs, MaxCompletionSteps)
  \/ RequestStatus
  \/ Tick

CompletionSpec == Init /\ [][CompletionNext]_vars

\* --------------------------------------------- assignments on the routes
\* The five routes that create, reassign, complete and delete tasks, called
\* by the admin without faults and with bodies that carry an assignee or a
\* completion.
MaxCounterSteps == 4

CounterCreateBodies == {[title |-> "t", assigned_to |-> a] : a \in AssigneeInputs}

CounterUpdateBodies ==
  {[assigned_to |-> a] : a \in AssigneeInputs} \cup {[status |-> "completed"]}

CounterNext ==
  \/ CreateTask(CoreCallers, CounterCreateBodies, CoreEnvs, MaxCounterSteps)
  \/ UpdateTask(CoreCallers, CounterUpdateBodies, CoreEnvs, MaxCounterSteps)
  \/ BulkUpdateTasks(CoreCallers, CounterUpdateBodies, CoreEnvs, MaxCounterSteps)
  \/ DeleteTask(CoreCallers, CoreEnvs, MaxCounterSteps)
  \/ GenerateAiTasks(CoreCallers, CorePlans, CoreEnvs, MaxCounterSteps)

CounterSpec == Init /\ [][CounterNext]_vars

\* ------------------------------------------------ the assignment recommender
\* get_best_assignee_for_task called on a team_members table; obj is the
\* table (a sequence of rows in query order), trail holds the last call: the
\* rows it found, the priority asked for and the position it returned.
RecommendNow == 8
MaxTeam == 2
MaxCalls == 2

TaskSets ==
  { [pending |-> 0, in_progress |-> 0, done |-> 0, other |-> 0, overdue |-> 0,
     last_done_at |-> NoTime],
    [pending |-> 1, in_progress |-> 0, done |-> 0, other |-> 0, overdue |-> 0,
     last_done_at |-> NoTime],
    [pending |-> 1, in_progress |-> 0, done |-> 1, other |-> 0, overdue |-> 0,
     last_done_at |-> RecommendNow],
    [pending |-> 1, in_progress |-> 0, done |-> 1, other |-> 1, overdue |-> 2,
     last_done_at |-> 1],
    [pending |-> 0, in_progress |-> 3, done |-> 12, other |-> 0, overdue |-> 0,
     last_done_at |-> RecommendNow] }

\* What earlier calls may have left in a row's metric columns.
StoredMetrics ==
  { [efficiency_rating |-> e[1], tasks_assigned |-> e[2], tasks_completed |-> e[3],
     last_task_completed |-> l] :
      e \in {<<Zero, 0, 0>>, <<RatInt(90), 10, 9>>},
      l \in {NoTime, 4, RecommendNow} }

MemberInputs ==
  { TeamMember(ts, st.efficiency_rating, st.tasks_assigned, st.tasks_completed,
               st.last_task_completed) : ts \in TaskSets, st \in StoredMetrics }

TeamInputs == UNION {[1..k -> MemberInputs] : k \in 0..MaxTeam}

RecommendInit ==
  /\ store = [tasks |-> NoTasks, users |-> Users0]
  /\ clock = RecommendNow
  /\ steps = 0
  /\ telegram_configured = FALSE
  /\ last = NoRequest
  /\ hist = [created |-> 0, reassigned |-> FALSE]
  /\ obj \in TeamInputs
  /\ trail = <<>>

GetBestAssignee ==
  /\ steps < MaxCalls
  /\ \E task_priority \in {"medium", "urgent"} :
       /\ trail' = <<[team_members  |-> obj,
                      task_priority |-> task_priority,
                      best |-> get_best_assignee_for_task(obj, task_priority, clock)]>>
       /\ obj' = refreshed_members(obj, clock)
  /\ steps' = steps + 1
  /\ UNCHANGED <<store, clock, telegram_configured, last, hist>>

RecommendNext == GetBestAssignee

RecommendSpec == RecommendInit /\ [][RecommendNext]_vars

\* ------------------------------------------------- performance metrics
\* update_performance_metrics called on one team member; obj is the member,
\* trail holds the instant of the last call.  Of the tasks counted in other,
\* completed have the status 'completed', the latest of them completed at
\* last_completed_at.
MaxMetricCalls == 2
MaxCompleted == 2

MetricTaskSets ==
  { [pending |-> p, in_progress |-> 0, done |-> d, other |-> c + x, overdue |-> o,
     last_done_at      |-> IF d > 0 THEN 1 ELSE NoTime,
     completed         |-> c,
     last_completed_at |-> IF c > 0 THEN 1 ELSE NoTime] :
      p \in 0..1, d \in 0..1, c \in 0..MaxCompleted, x \in 0..1, o \in 0..1 }

MetricsInit ==
  /\ store = [tasks |-> NoTasks, users |-> Users0]
  /\ clock = 1
  /\ steps = 0
  /\ telegram_configured = FALSE
  /\ last = NoRequest
  /\ hist = [created |-> 0, reassigned |-> FALSE]
  /\ obj \in {TeamMember(ts, Zero, 0, 0, l) : ts \in MetricTaskSets, l \in {NoTime, 0}}
  /\ trail = <<>>

UpdatePerformanceMetrics ==
  /\ steps < MaxMetricCalls
  /\ obj' = update_performance_metrics(obj, clock)
  /\ trail' = <<[now |-> clock]>>
  /\ steps' = steps + 1
  /\ UNCHANGED <<store, clock, telegram_configured, last, hist>>

MetricsNext == UpdatePerformanceMetrics

MetricsSpec == MetricsInit /\ [][MetricsNext]_vars

\* ------------------------------------------------- task suggestions
\* generate_task_suggestions called on a service; obj is the service with
\* the answer the API will give, trail holds the result of the call.
MaxContent == 4

Contents == UNION {[1..k -> Tokens] : k \in 0..MaxContent} \cup {NoContent}

ServiceInputs ==
  {[configured |-> FALSE, call |-> "returns", content |-> <<>>],
   [configured |-> TRUE, call |-> "fails", content |-> <<>>]}
  \cup {[configured |-> TRUE, call |-> "returns", content |-> c] : c \in Contents}

SuggestInit ==
  /\ store = [tasks |-> NoTasks, users |-> Users0]
  /\ clock = 0
  /\ steps = 0
  /\ telegram_configured = FALSE
  /\ last = NoRequest
  /\ hist = [created |-> 0, reassigned |-> FALSE]
  /\ obj \in ServiceInputs
  /\ trail = <<>>

GenerateTaskSuggestions ==
  /\ trail = <<>>
  /\ trail' = <<generate_task_suggestions(obj)>>
  /\ UNCHANGED <<store, clock, steps, telegram_configured, last, hist, obj>>

SuggestNext == GenerateTaskSuggestions

SuggestSpec == SuggestInit /\ [][SuggestNext]_vars

\* ------------------------------------------------ assignment suggestions
\* The fallback and suggest_task_assignment called on a candidate list; obj
\* is [service, team_members], trail holds one entry per call made.
MaxResponse == 3
MaxCandidates == 3

CandidateInputs ==
  {Candidate("alice", 3, 0), Candidate("bob", 2, 1),
   Candidate("carol", 5, 0), Candidate("dave", 4, 3)}

CandidateLists ==
  {T \in UNION {[1..k -> CandidateInputs] : k \in 0..MaxCandidates} :
     \A i, j \in 1..Len(T) : T[i].username = T[j].username => i = j}

Responses == UNION {[1..k -> AssignTokens] : k \in 0..MaxResponse} \cup {NoContent}

AssignServiceInputs ==
  {[configured |-> FALSE, call |-> "returns", content |-> <<>>],
   [configured |-> TRUE, call |-> "fails", content |-> <<>>]}
  \cup {[configured |-> TRUE, call |-> "returns", content |-> c] : c \in Responses}

AssignInit ==
  /\ store = [tasks |-> NoTasks, users |-> Users0]
  /\ clock = 0
  /\ steps = 0
  /\ telegram_configured = FALSE
  /\ last = NoRequest
  /\ hist = [created |-> 0, reassigned |-> FALSE]
  /\ obj \in [service : AssignServiceInputs, team_members : CandidateLists]
  /\ trail = <<>>

Called(op) == \E i \in 1..Len(trail) : trail[i].op = op

GetFallbackAssignment ==
  /\ ~Called("get_fallback_assignment")
  /\ trail' = Append(trail, [op     |-> "get_fallback_assignment",
                             result |-> get_fallback_assignment(obj.team_members)])
  /\ UNCHANGED <<store, clock, steps, telegram_configured, last, hist, obj>>

SuggestTaskAssignment ==
  /\ ~Called("suggest_task_assignment")
  /\ trail' = Append(trail, [op     |-> "suggest_task_assignment",
                             result |-> suggest_task_assignment(obj.service,
                                                                obj.team_members)])
  /\ UNCHANGED <<store, clock, steps, telegram_configured, last, hist, obj>>

AssignNext == GetFallbackAssignment \/ SuggestTaskAssignment

AssignSpec == AssignInit /\ [][AssignNext]_vars

\* ------------------------------------------------------ AI interactions
\* mark_processed and mark_failed called on one ChatMessage as time passes;
\* obj is the message, steps counts the calls.
MaxMarks == 3

ChatInit ==
  /\ store = [tasks |-> NoTasks, users |-> Users0]
  /\ clock = 0
  /\ steps = 0
  /\ telegram_configured = FALSE
  /\ last = NoRequest
  /\ hist = [created |-> 0, reassigned |-> FALSE]
  /\ obj = ChatMessage(AdminId, "task_generation")
  /\ trail = <<>>

MarkProcessed ==
  /\ steps < MaxMarks
  /\ \E ai_response \in {"r1", "r2"}, tokens_used \in {0, 10} :
       obj' = mark_processed(obj, ai_response, tokens_used, 0, None, clock)
  /\ steps' = steps + 1
  /\ UNCHANGED <<store, clock, telegram_configured, last, hist, trail>>

MarkFailed ==
  /\ steps < MaxMarks
  /\ \E error_message \in {"e1", "e2"} :
       obj' = mark_failed(obj, error_message, clock)
  /\ steps' = steps + 1
  /\ UNCHANGED <<store, clock, telegram_configured, last, hist, trail>>

ChatNext == MarkProcessed \/ MarkFailed \/ Tick

ChatSpec == ChatInit /\ [][ChatNext]_vars

\* ------------------------------------------------- completion statistics
\* update_task_stats called on one User with the duration of each completed
\* task; obj is the user, trail the samples handed over so far.
MaxSamples == 4

Samples ==
  {Rat(RoundHalfEven(k * SecondsPerTick * 100, SecondsPerHour), 100) : k \in 0..MaxClock}

StatsInit ==
  /\ store = [tasks |-> NoTasks, users |-> Users0]
  /\ clock = 0
  /\ steps = 0
  /\ telegram_configured = FALSE
  /\ last = NoRequest
  /\ hist = [created |-> 0, reassigned |-> FALSE]
  /\ obj = User("team")
  /\ trail = <<>>

UpdateTaskStats ==
  /\ Len(trail) < MaxSamples
  /\ \E completion_time_hours \in Samples :
       /\ obj' = update_task_stats(obj, completion_time_hours)
       /\ trail' = Append(trail, completion_time_hours)
  /\ UNCHANGED <<store, clock, steps, telegram_configured, last, hist>>

StatsNext == UpdateTaskStats

StatsSpec == StatsInit /\ [][StatsNext]_vars

\* ------------------------------------------------ notification templates
\* Each template rendered on the same inputs; obj holds the inputs, trail the
\* message rendered last.
MaxText == 2

Chars == {"a", "_", "."}

Texts == UNION {[1..k -> Chars] : k \in 0..MaxText}

TemplateInputs ==
  [text          : Texts,
   due_date      : {"", "2024-01-01T00:00:00"},
   overall_score : {[float |-> FALSE, tenths |-> 0], [float |-> TRUE, tenths |-> 755]}]

TemplateInit ==
  /\ store = [tasks |-> NoTasks, users |-> Users0]
  /\ clock = 0
  /\ steps = 0
  /\ telegram_configured = TRUE
  /\ last = NoRequest
  /\ hist = [created |-> 0, reassigned |-> FALSE]
  /\ obj \in TemplateInputs
  /\ trail = <<>>

TaskData ==
  [title |-> obj.text, description |-> obj.text, priority |-> <<"a">>,
   due_date |-> obj.due_date, duration_hours |-> obj.overall_score,
   completion_score |-> obj.overall_score]

FormatTaskAssignment ==
  /\ trail' = <<[template |-> "assignment",
                 message  |-> format_task_assignment_message(
                                TaskData, [username |-> obj.text])]>>
  /\ UNCHANGED <<store, clock, steps, telegram_configured, last, hist, obj>>

FormatTaskCompletion ==
  /\ trail' = <<[template |-> "completion",
                 message  |-> format_task_completion_message(
                                TaskData, [username |-> obj.text])]>>
  /\ UNCHANGED <<store, clock, steps, telegram_configured, last, hist, obj>>

FormatTaskStatus ==
  /\ \E old_status, new_status \in {<<"a">>, <<"a", "_", "a">>} :
       trail' = <<[template |-> "status_update",
                   message  |-> format_task_status_message(
                                  TaskData, old_status, new_status,
                                  [username |-> obj.text])]>>
  /\ UNCHANGED <<store, clock, steps, telegram_configured, last, hist, obj>>

FormatPerformanceReport ==
  /\ trail' = <<[template |-> "performance_report",
                 message  |-> format_performance_report_message(
                                [timeframe          |-> obj.text,
                                 overall_score      |-> obj.overall_score,
                                 productivity_trend |-> <<"a">>,
                                 key_insights       |-> <<obj.text, obj.text>>])]>>
  /\ UNCHANGED <<store, clock, steps, telegram_configured, last, hist, obj>>

FormatAiTaskGeneration ==
  /\ trail' = <<[template |-> "ai_generation",
                 message  |-> format_ai_task_generation_message(
                                <<[title |-> obj.text]>>, obj.text)]>>
  /\ UNCHANGED <<store, clock, steps, telegram_configured, last, hist, obj>>

FormatCustomMessage ==
  /\ trail' = <<[template |-> "custom",
                 message  |-> format_custom_message(obj.text, obj.text)]>>
  /\ UNCHANGED <<store, clock, steps, telegram_configured, last, hist, obj>>

TemplateNext ==
  \/ FormatTaskAssignment
  \/ FormatTaskCompletion
  \/ FormatTaskStatus
  \/ FormatPerformanceReport
  \/ FormatAiTaskGeneration
  \/ FormatCustomMessage

TemplateSpec == TemplateInit /\ [][TemplateNext]_vars

\* ------------------------------------------- two concurrent update_task
\* Two update_task requests served by different threads, each with its own
\* scoped session, each completing another task of the same assignee.  obj
\* maps a request to its session: the position of its handler (pc), the rows
\* as they were when the session read them (loaded) and the request context
\* with the session's view of the rows (ctx).  trail keeps the assignee's
\* row as it was before the requests.
Requests == {1, 2}

RaceBody == [status |-> "completed"]

RaceTask == update_status(Task("medium", "pending", TeamId, AdminId, NoTime, DefaultDifficulty), "in_progress", 0, 0)

RaceStore ==
  [ tasks |-> (1 :> RaceTask) @@ (2 :> RaceTask),
    users |-> [Users0 EXCEPT ![TeamId].total_tasks_assigned = 2] ]

RaceInit ==
  /\ store = RaceStore
  /\ clock = 0
  /\ steps = 0
  /\ telegram_configured = FALSE
  /\ last = NoRequest
  /\ hist = [created |-> 2, reassigned |-> FALSE]
  /\ obj = [r \in Requests |->
              [pc |-> "idle", loaded |-> RaceStore,
               ctx |-> [tasks |-> RaceStore.tasks, users |-> RaceStore.users,
                        op |-> "update_task", task |-> r, resp |-> 0,
                        committed |-> FALSE, kinds |-> {}, dirty |-> FALSE]]]
  /\ trail = <<RaceStore.users[TeamId]>>

\* The UPDATE statements a flush emits: the task row of the request, and of
\* each user row the attributes whose value differs from the loaded one, set
\* to the value computed in the session.
flush(db, loaded, ctx) ==
  LET attr(u, name) == IF ctx.users[u][name] # loaded.users[u][name]
                       THEN ctx.users[u][name] ELSE db.users[u][name]
  IN  [ tasks |-> [db.tasks EXCEPT ![ctx.task] = ctx.tasks[ctx.task]],
        users |-> [u \in DOMAIN db.users |->
                     [ role                    |-> db.users[u].role,
                       total_tasks_assigned    |-> attr(u, "total_tasks_assigned"),
                       total_tasks_completed   |-> attr(u, "total_tasks_completed"),
                       average_completion_time |-> attr(u, "average_completion_time"),
                       performance_score       |-> attr(u, "performance_score") ]] ]

\* Lines 228-256: the session reads the caller's row (the assignee) and the
\* task; the later User.query.get(task.assigned_to) is served from the
\* session's identity map.
RaceLoad(r) ==
  /\ obj[r].pc = "idle"
  /\ obj' = [obj EXCEPT ![r] = [pc |-> "loaded", loaded |-> store, ctx |-> update_task_lookup(Begin("update_task", r), TeamId, RaceBody)]]
  /\ UNCHANGED <<store, clock, steps, telegram_configured, last, hist, trail>>

\* Lines 272-297: update_status and update_task_stats on the session's objects.
RaceModify(r) ==
  /\ obj[r].pc = "loaded"
  /\ obj' = [obj EXCEPT ![r].pc = "modified", ![r].ctx = update_task_status(obj[r].ctx, RaceBody, NoFault, clock)]
  /\ UNCHANGED <<store, clock, steps, telegram_configured, last, hist, trail>>

\* Line 354: db.session.commit() writes the session's changes.
RaceCommit(r) ==
  /\ obj[r].pc = "modified"
  /\ store' = flush(store, obj[r].loaded, obj[r].ctx)
  /\ obj' = [obj EXCEPT ![r].pc = "committed", ![r].ctx = respond([obj[r].ctx EXCEPT !.committed = TRUE], 200)]
  /\ steps' = steps + 1
  /\ UNCHANGED <<clock, telegram_configured, last, hist, trail>>

RaceNext ==
  \/ \E r \in Requests : RaceLoad(r)
  \/ \E r \in Requests : RaceModify(r)
  \/ \E r \in Requests : RaceCommit(r)
  \/ Tick

RaceSpec == RaceInit /\ [][RaceNext]_vars

\* ================================================================ claims
Succeeded(r) == r.resp \in {200, 201}

IsRequestStep == steps' = steps + 1

Users == store.users
Tasks == store.tasks

\* C1: in every reachable state a task's completed_at is set if and only if
\* its status is completed.
C1_CompletedAtIffCompleted ==
  \A id \in DOMAIN Tasks :
    (Tasks[id].completed_at # NoTime) <=> (Tasks[id].status = "completed")

\* C2: in every reachable state a task's started_at is set if and only if its
\* status is in_progress or completed.
C2_StartedAtIffStarted ==
  \A id \in DOMAIN Tasks :
    (Tasks[id].started_at # NoTime) <=> (Tasks[id].status \in {"in_progress", "completed"})

\* C3: in every committed state each user's stored performance_score equals
\* the score computed from the user's current counters and average time.
C3_PerformanceScoreFresh ==
  \A u \in DOMAIN Users : Users[u].performance_score = performance_score_of(Users[u])

\* The tasks whose assignee a step changes from one existing user to another.
Reassigned ==
  {id \in DOMAIN Tasks \cap DOMAIN Tasks' :
     /\ Tasks[id].assigned_to # Tasks'[id].assigned_to
     /\ Tasks[id].assigned_to \in DOMAIN Users
     /\ Tasks'[id].assigned_to \in DOMAIN Users}

\* C4: when update_task or bulk_update_tasks moves one task from user X to a
\* different user Y, X.total_tasks_assigned drops by 1 (not below 0),
\* Y.total_tasks_assigned grows by 1, and the stored performance_score of both
\* is the score of their new counters.
C4_ReassignAdjustsBoth ==
  [][ (/\ IsRequestStep
       /\ last'.op \in {"update_task", "bulk_update_tasks"}
       /\ Cardinality(Reassigned) = 1)
      => \A id \in Reassigned :
           LET X == Tasks[id].assigned_to
               Y == Tasks'[id].assigned_to
           IN  /\ Users'[X].total_tasks_assigned
                    = (IF Users[X].total_tasks_assigned > 0
                       THEN Users[X].total_tasks_assigned - 1 ELSE 0)
               /\ Users'[Y].total_tasks_assigned = Users[Y].total_tasks_assigned + 1
               /\ Users'[X].performance_score = performance_score_of(Users'[X])
               /\ Users'[Y].performance_score = performance_score_of(Users'[Y]) ]_vars

\* The tasks a step takes from completed to a non-completed status while they
\* stay assigned to the same existing user.
Uncompleted ==
  {id \in DOMAIN Tasks \cap DOMAIN Tasks' :
     /\ Tasks[id].status = "completed"
     /\ Tasks'[id].status # "completed"
     /\ Tasks[id].assigned_to \in DOMAIN Users
     /\ Tasks'[id].assigned_to = Tasks[id].assigned_to}

\* C5: whenever update_task or bulk_update_tasks moves a task assigned to a
\* user from completed to a non-completed status, that user's
\* total_tasks_completed drops by 1 (not below 0) and the user's
\* performance_score is recomputed.
C5_UncompleteDecrements ==
  [][ (/\ IsRequestStep
       /\ last'.op \in {"update_task", "bulk_update_tasks"}
       /\ Cardinality(Uncompleted) = 1)
      => \A id \in Uncompleted :
           LET U == Tasks[id].assigned_to
           IN  /\ Users'[U].total_tasks_completed
                    = (IF Users[U].total_tasks_completed > 0
                       THEN Users[U].total_tasks_completed - 1 ELSE 0)
               /\ Users'[U].performance_score = performance_score_of(Users'[U]) ]_vars

\* C6: deleting a task reverses its effect on its assignee: once the only task
\* ever created (never reassigned) has been deleted, every user's
\* total_tasks_assigned and total_tasks_completed are back at the values they
\* had before it was created, which are 0.
C6_DeleteReverses ==
  (hist.created = 1 /\ ~hist.reassigned /\ DOMAIN Tasks = {})
  => \A u \in DOMAIN Users :
       Users[u].total_tasks_assigned = 0 /\ Users[u].total_tasks_completed = 0

\* C7: a request that does not succeed leaves the persisted store exactly as
\* it was, whatever the handler had already changed in its session.
C7_FailedRequestPersistsNothing ==
  [][ (IsRequestStep /\ ~Succeeded(last')) => store' = store ]_vars

C7_Witness ==
  /\ last.op = "update_task"
  /\ last.resp = 400
  /\ last.dirty
  /\ DOMAIN Tasks # {}

\* C8: when a notification dispatch of create_task or update_task fails or
\* raises (and the request carries no invalid value), the request still
\* succeeds and commits: the assignee's assigned counter of an assignment
\* notice and the completed counter of a completion notice have moved.
C8_NotificationFailureCommits ==
  [][ (/\ IsRequestStep
       /\ last'.op \in {"create_task", "update_task"}
       /\ last'.notif \in {"fail", "raise"}
       /\ ~last'.invalid)
      => /\ Succeeded(last')
         /\ last'.committed
         /\ store' # store
         /\ "assignment" \in last'.kinds
              => \E u \in DOMAIN Users :
                   Users'[u].total_tasks_assigned = Users[u].total_tasks_assigned + 1
         /\ "completion" \in last'.kinds
              => \E u \in DOMAIN Users :
                   Users'[u].total_tasks_completed = Users[u].total_tasks_completed + 1 ]_vars

C8_Witness ==
  /\ last.op = "update_task"
  /\ last.notif = "raise"
  /\ "completion" \in last.kinds
  /\ last.resp = 200
  /\ \E u \in DOMAIN Users : Users[u].total_tasks_completed = 1

\* C9: create_task and update_task reject a request carrying a priority, a
\* status, a difficulty_rating or a due date outside the data model, before
\* any mutation: the request does not succeed, its session holds no change and
\* the store is unchanged.
C9_InvalidValueRejected ==
  [][ (/\ IsRequestStep
       /\ last'.op \in {"create_task", "update_task"}
       /\ last'.invalid)
      => (~Succeeded(last') /\ ~last'.dirty /\ store' = store) ]_vars

StartThenComplete ==
  /\ Len(trail) = 2
  /\ trail[1] = [from |-> "pending", to |-> "in_progress"]
  /\ trail[2] = [from |-> "in_progress", to |-> "completed"]

CompleteFromPending ==
  /\ Len(trail) >= 1
  /\ trail[Len(trail)] = [from |-> "pending", to |-> "completed"]

\* C10: for a pending task, update_status('in_progress') followed by
\* update_status('completed'), or update_status('completed') alone, leaves the
\* task completed with started_at set, started_at <= completed_at and
\* actual_hours equal to duration_hours.
C10_StartCompleteRoundTrip ==
  (StartThenComplete \/ CompleteFromPending)
  => /\ obj.status = "completed"
     /\ obj.started_at # NoTime
     /\ obj.completed_at # NoTime
     /\ obj.started_at <= obj.completed_at
     /\ obj.actual_hours = duration_hours(obj, clock)
     /\ obj.actual_hours =
          Rat(RoundHalfEven((obj.completed_at - obj.started_at) * SecondsPerTick * 100,
                            SecondsPerHour), 100)

C10_Witness ==
  /\ StartThenComplete
  /\ obj.started_at < obj.completed_at
  /\ RatLess(Zero, obj.actual_hours)

\* The status the last update_status call of the trail asked for, and the one
\* the task had when it was called.
LastAsked(q) == q[Len(q)].to
LastFrom(q) == q[Len(q)].from

\* The four fields a reset is about.
ResetFields(t) == <<t.status, t.started_at, t.completed_at, t.actual_hours>>

\* C11: update_status('pending') on a completed or in-progress task leaves
\* status pending, started_at and completed_at None and actual_hours 0, and a
\* second update_status('pending') right after it changes none of the four.
C11_ResetIdempotent ==
  [][ (ObjUpdateStatus /\ LastAsked(trail') = "pending")
      => /\ obj.status \in {"in_progress", "completed"}
              => ResetFields(obj') = <<"pending", NoTime, NoTime, Zero>>
         /\ (/\ trail # <<>>
             /\ LastAsked(trail) = "pending"
             /\ LastFrom(trail) \in {"in_progress", "completed"})
              => ResetFields(obj') = ResetFields(obj) ]_vars

C11_Witness ==
  /\ Len(trail) = 2
  /\ trail[1] = [from |-> "completed", to |-> "pending"]
  /\ trail[2] = [from |-> "pending", to |-> "pending"]
  /\ ResetFields(obj) = <<"pending", NoTime, NoTime, Zero>>

\* C12: asking for completed on a task that is already completed is not an
\* error and changes nothing: update_status reports no change, the task keeps
\* its status, started_at, completed_at and actual_hours, and through
\* update_task no user's total_tasks_completed or average_completion_time
\* moves.
C12_CompleteTwiceIsNoop ==
  [][ (/\ RequestStatus
       /\ trail' # <<>>
       /\ LastFrom(trail') = "completed"
       /\ LastAsked(trail') = "completed")
      => /\ Succeeded(last')
         /\ \A id \in DOMAIN Tasks :
              /\ Tasks[id].status = "completed"
                   => ~update_status_changed(Tasks[id], "completed")
              /\ id \in DOMAIN Tasks'
              /\ ResetFields(Tasks'[id]) = ResetFields(Tasks[id])
         /\ \A u \in DOMAIN Users :
              /\ Users'[u].total_tasks_completed = Users[u].total_tasks_completed
              /\ Users'[u].average_completion_time = Users[u].average_completion_time ]_vars

C12_Witness ==
  /\ last.op = "update_task"
  /\ last.resp = 200
  /\ trail # <<>>
  /\ LastFrom(trail) = "completed"
  /\ LastAsked(trail) = "completed"
  /\ \E u \in DOMAIN Users : Users[u].total_tasks_completed = 1

\* The final_score the claim gives a member of team T for priority p: the
\* recomputed workload_score times the priority factor, minus a tenth of the
\* recomputed efficiency_rating.
ClaimedScore(T, i, p) ==
  LET m  == update_performance_metrics(T[i], clock)
      pf == IF p = "urgent" /\ RatLess(m.efficiency_rating, RatInt(70))
            THEN RatInt(2) ELSE RatInt(1)
  IN  RatAdd(RatMul(get_workload_score(m), pf),
             RatMul(Rat(-1, 10), m.efficiency_rating))

\* C13: get_best_assignee_for_task returns None for an empty table; otherwise
\* the member it returns has a minimal final_score and precedes every other
\* member with that score; for an urgent task a member with workload 5 and
\* efficiency 90 is preferred to one with workload 2 and efficiency 40, in
\* either input order.
C13_BestAssigneeMinimal ==
  /\ trail # <<>>
       => LET T == trail[1].team_members
              p == trail[1].task_priority
              b == trail[1].best
          IN  /\ T = <<>> => b = 0
              /\ T # <<>>
                   => /\ b \in 1..Len(T)
                      /\ \A j \in 1..Len(T) :
                           ~RatLess(ClaimedScore(T, j, p), ClaimedScore(T, b, p))
                      /\ \A j \in 1..(b - 1) :
                           RatLess(ClaimedScore(T, b, p), ClaimedScore(T, j, p))
  /\ LET A == final_score(RatInt(5), RatInt(90), "urgent")
         B == final_score(RatInt(2), RatInt(40), "urgent")
     IN  /\ sort_by_score(<<[member |-> 1, score |-> A],
                            [member |-> 2, score |-> B]>>)[1].member = 1
         /\ sort_by_score(<<[member |-> 1, score |-> B],
                            [member |-> 2, score |-> A]>>)[1].member = 2

\* An urgent task goes to the second member although the first would get a
\* task of medium priority.
C13_Witness ==
  /\ trail # <<>>
  /\ Len(trail[1].team_members) = 2
  /\ trail[1].task_priority = "urgent"
  /\ trail[1].best = 2
  /\ get_best_assignee_for_task(trail[1].team_members, "medium", clock) = 1

\* The tables that hold the same members with the same tasks as T and differ
\* from it at most in the stored metric columns.
SameTasksAs(T) ==
  { X \in [1..Len(T) -> MemberInputs] :
      \A i \in 1..Len(T) : X[i].assigned_tasks = T[i].assigned_tasks }

\* C14: the recommendation does not depend on the stored efficiency_rating,
\* tasks_assigned, tasks_completed or last_task_completed: every table with
\* the same members and tasks gets the same member recommended.
C14_StoredMetricsIrrelevant ==
  trail # <<>>
    => \A X \in SameTasksAs(trail[1].team_members) :
         get_best_assignee_for_task(X, trail[1].task_priority, clock) = trail[1].best

\* The part of a response text from its first "[" to its last "]" (empty when
\* there is no such part).
ArraySpan(c) ==
  LET opens  == {i \in 1..Len(c) : c[i] = "["}
      closes == {i \in 1..Len(c) : c[i] = "]"}
  IN  IF opens = {} \/ closes = {} THEN <<>>
      ELSE SubSeq(c, CHOOSE i \in opens : \A j \in opens : i <= j,
                     CHOOSE i \in closes : \A j \in closes : j <= i)

\* The three failure cases of generate_task_suggestions.
SuggestionFailure(service) ==
  \/ ~service.configured
  \/ service.call = "fails"
  \/ service.content = NoContent
  \/ ~json_loads_array(ArraySpan(service.content)).ok

\* C15: generate_task_suggestions never raises, and when the adapter is
\* unconfigured, the call fails or no JSON array can be parsed from the
\* response it returns exactly the three fallback tasks (Code Review and
\* Optimization, Update Documentation, Bug Investigation), none of them marked
\* as AI generated.
C15_FallbackTasks ==
  trail # <<>>
    => /\ trail[1].raised = ""
       /\ SuggestionFailure(obj)
            => /\ Len(trail[1].value) = 3
               /\ trail[1].value[1].title = "Code Review and Optimization"
               /\ trail[1].value[2].title = "Update Documentation"
               /\ trail[1].value[3].title = "Bug Investigation"
               /\ \A i \in 1..3 : ~trail[1].value[i].is_ai_generated

\* A configured service whose call returned a text with brackets that is not
\* a JSON array.
C15_Witness ==
  /\ trail # <<>>
  /\ obj.configured
  /\ obj.call = "returns"
  /\ obj.content = <<"[", "T", "x", "]">>
  /\ trail[1].value = get_fallback_tasks

\* C16: the assignment fallback recommends, of a non-empty candidate list, the
\* candidate with the least total_tasks_assigned - total_tasks_completed, the
\* first in input order among ties, with confidence 50 (workloads 3, 1, 5
\* recommend the second candidate); of an empty list it recommends None with
\* confidence 0.
ResultOf(op) == trail[CHOOSE i \in 1..Len(trail) : trail[i].op = op].result

Delta(T, i) == T[i].total_tasks_assigned - T[i].total_tasks_completed

FirstLeast(T, i) ==
  /\ \A j \in 1..Len(T) : Delta(T, i) <= Delta(T, j)
  /\ \A j \in 1..(i - 1) : Delta(T, j) # Delta(T, i)

C16_FallbackAssignment ==
  Called("get_fallback_assignment") =>
    LET T == obj.team_members
        r == ResultOf("get_fallback_assignment")
    IN  /\ T = <<>> => r.recommended_member = None /\ r.confidence = 0
        /\ T # <<>> =>
             /\ r.confidence = 50
             /\ \E i \in 1..Len(T) :
                  FirstLeast(T, i) /\ r.recommended_member = T[i].username
        /\ (Len(T) = 3 /\ Delta(T, 1) = 3 /\ Delta(T, 2) = 1 /\ Delta(T, 3) = 5)
             => r.recommended_member = T[2].username

C16_Witness ==
  /\ Called("get_fallback_assignment")
  /\ \E i, j \in 1..Len(obj.team_members) :
       /\ i < j
       /\ FirstLeast(obj.team_members, i)
       /\ Delta(obj.team_members, j) = Delta(obj.team_members, i)
       /\ ResultOf("get_fallback_assignment").recommended_member
            = obj.team_members[i].username

\* C17: the recommended_member of every result of suggest_task_assignment is
\* the username of a supplied candidate, or None when and only when no
\* candidate was supplied; an answer that names no candidate is replaced by
\* the fallback recommendation.
Usernames(T) == {T[i].username : i \in 1..Len(T)}

AnswerNames(service) ==
  IF service.configured /\ service.call = "returns" /\ service.content # NoContent
     /\ find(service.content, "{") # -1
  THEN LET parsed == json_loads_object(slice(service.content,
                                             find(service.content, "{"),
                                             rfind(service.content, "}") + 1))
       IN  IF parsed.ok THEN parsed.value.recommended_member ELSE None
  ELSE None

C17_RecommendedIsCandidate ==
  Called("suggest_task_assignment") =>
    LET T == obj.team_members
        r == ResultOf("suggest_task_assignment")
    IN  /\ T # <<>> => r.recommended_member \in Usernames(T)
        /\ T = <<>> => r.recommended_member = None
        /\ AnswerNames(obj.service) \notin Usernames(T)
             => r = get_fallback_assignment(T)

C17_Witness ==
  /\ Called("suggest_task_assignment")
  /\ obj.team_members # <<>>
  /\ AnswerNames(obj.service) = "mallory"
  /\ ResultOf("suggest_task_assignment").recommended_member
       \in Usernames(obj.team_members)

\* An answer naming a candidate other than the least loaded one is returned.
C17_AnswerReturned ==
  /\ Called("suggest_task_assignment")
  /\ AnswerNames(obj.service) = "carol"
  /\ ResultOf("suggest_task_assignment").recommended_member = "carol"
  /\ get_fallback_assignment(obj.team_members).recommended_member # "carol"

\* C18: a ChatMessage leaves the status pending once: when its status is
\* processed or failed, no call of mark_processed or mark_failed changes its
\* status, ai_response, error_message, tokens_used or processed_at.
MarkOutcome(m) ==
  <<m.status, m.ai_response, m.error_message, m.tokens_used, m.processed_at>>

C18_TerminalIsFinal ==
  [][obj.status \in {"processed", "failed"} => MarkOutcome(obj') = MarkOutcome(obj)]_vars

\* C19: calculate_completion_score gives a completed task the on-time bonus
\* of 20 only when its completed_at is not after its due_date: the score of a
\* task completed after its due date is 50, plus the efficiency bonus, plus
\* twice the difficulty, without the 20.
EstimatedHours == {Zero, RatInt(14), RatInt(100)}

CompletedLate(t) ==
  /\ t.status = "completed"
  /\ t.due_date # NoTime
  /\ t.completed_at # NoTime
  /\ t.completed_at > t.due_date

ScoreWithoutOnTime(t, estimated_hours) ==
  LET efficiency == RatDiv(estimated_hours, t.actual_hours)
      bonus == IF /\ RatLess(Zero, estimated_hours)
                  /\ RatLess(Zero, t.actual_hours)
                  /\ ~RatLess(efficiency, RatInt(1))
               THEN RatMin(RatInt(20), RatMul(efficiency, RatInt(10)))
               ELSE Zero
  IN  RatMin(RatInt(100),
             RatAdd(RatAdd(RatInt(50), bonus), RatInt(t.difficulty_rating * 2)))

C19_NoBonusWhenLate ==
  CompletedLate(obj) =>
    \A e \in EstimatedHours :
      calculate_completion_score(obj, e, clock) = ScoreWithoutOnTime(obj, e)

\* C20: update_task_stats with a sample s sets average_completion_time to s
\* when the incremented total_tasks_completed n is 1 and to
\* (old average * (n - 1) + s) / n otherwise; so after n completions
\* average_completion_time * n is the sum of the n samples.  (Hours are exact
\* rationals here.)
RECURSIVE SumOf(_)
SumOf(q) == IF q = <<>> THEN Zero ELSE RatAdd(Head(q), SumOf(Tail(q)))

RunningMeanStep ==
  LET n == obj'.total_tasks_completed
      s == trail'[Len(trail')]
  IN  /\ n = obj.total_tasks_completed + 1
      /\ obj'.average_completion_time =
           IF n = 1 THEN s
           ELSE RatDiv(RatAdd(RatMul(obj.average_completion_time, RatInt(n - 1)), s),
                       RatInt(n))

MeanOfSamples ==
  /\ obj.total_tasks_completed = Len(trail)
  /\ RatMul(obj.average_completion_time, RatInt(Len(trail))) = SumOf(trail)

Escaped(text) ==
  \A i \in 1..Len(text) :
    (\E k \in 1..Len(special_chars) : special_chars[k] = text[i])
      => i > 1 /\ text[i - 1] = "\\"

C21_ValuesEscaped ==
  \A i \in 1..Len(trail) :
    \A k \in 1..Len(trail[i].message) : Escaped(trail[i].message[k].text)

\* Apart from the due date and the overall score every value is escaped.
C21_OtherValuesEscaped ==
  \A i \in 1..Len(trail) :
    \A k \in 1..Len(trail[i].message) :
      trail[i].message[k].field \notin {"due_date", "overall_score"}
        => Escaped(trail[i].message[k].text)

\* C22: after calculate_performance_score has run on a user whose
\* total_tasks_assigned is 0, the user's performance_score is 0: when
\* delete_task removes the last task assigned to a user, that user's stored
\* score is 0 afterwards.
C22_ZeroAssignedZeroScore ==
  [][ (/\ IsRequestStep
       /\ last'.op = "delete_task"
       /\ Succeeded(last')
       /\ last'.task \in DOMAIN Tasks
       /\ Tasks[last'.task].assigned_to \in DOMAIN Users)
      => LET a == Tasks[last'.task].assigned_to
         IN  Users'[a].total_tasks_assigned = 0
               => Users'[a].performance_score = Zero ]_vars

\* C23: after update_performance_metrics has run for a team member,
\* tasks_assigned is the number of tasks assigned to the member,
\* tasks_completed the number of them with status completed,
\* last_task_completed the latest completed_at among them, and the stored
\* efficiency_rating the efficiency computed from those refreshed values.
AssignedCount(ts) == ts.pending + ts.in_progress + ts.done + ts.other

C23_MetricsRefreshed ==
  trail # <<>> =>
    /\ obj.tasks_assigned = AssignedCount(obj.assigned_tasks)
    /\ obj.tasks_completed = obj.assigned_tasks.completed
    /\ obj.assigned_tasks.completed > 0
         => obj.last_task_completed = obj.assigned_tasks.last_completed_at
    /\ obj.efficiency_rating = calculate_efficiency(obj, trail[1].now)

\* The count of assigned tasks is refreshed.
C23_AssignedRefreshed ==
  trail # <<>> => obj.tasks_assigned = AssignedCount(obj.assigned_tasks)

\* C24: a task whose status is completed is never treated as overdue,
\* whatever its due_date: is_overdue is false for it, and the overdue count
\* behind the overdue penalty of its assignee's efficiency_rating leaves it out.
C24_CompletedNeverOverdue ==
  obj.status = "completed" =>
    /\ ~is_overdue(obj, clock)
    /\ overdue_tasks_query(<<obj>>, TeamId, clock) = 0

\* is_overdue is false for every completed task.
C24_IsOverdueFalse == obj.status = "completed" => ~is_overdue(obj, clock)

\* C25: after any sequence of create_task, update_task, bulk_update_tasks,
\* delete_task and generate_ai_tasks, every user's total_tasks_assigned is the
\* number of existing tasks assigned to that user.
AssignedTo(u) == {id \in DOMAIN Tasks : Tasks[id].assigned_to = u}

C25_AssignedCountExact ==
  \A u \in DOMAIN Users : Users[u].total_tasks_assigned = Cardinality(AssignedTo(u))

C25_Witness ==
  /\ hist.reassigned
  /\ last.op = "delete_task"
  /\ Succeeded(last)
  /\ \E u \in DOMAIN Users : Users[u].total_tasks_assigned = 1 /\ AssignedTo(u) # {}

\* C26: in every reachable state each user's total_tasks_completed is at
\* most the user's total_tasks_assigned, under any sequence of create,
\* complete, un-complete, reassign and delete operations.
C26_CompletedAtMostAssigned ==
  \A u \in DOMAIN Users : Users[u].total_tasks_completed <= Users[u].total_tasks_assigned

\* C27: for one task the caller may edit and an update of status, priority
\* and assigned_to, bulk_update_tasks leaves the task and every user's
\* counters, average and score as update_task called with the same fields
\* leaves them.
C27_BulkMatchesUpdate ==
  \A id \in DOMAIN Tasks, b \in CoreUpdateBodies \cup {[priority |-> "high"]} :
    teardown(bulk_update_tasks(AdminId, {id}, b, NoFault, clock))
      = teardown(update_task(AdminId, id, b, NoFault, clock))

\* The two routes agree on an update that leaves the status alone.
C27_AgreeWithoutStatus ==
  \A id \in DOMAIN Tasks, b \in {[assigned_to |-> a] : a \in AssigneeInputs}
                                  \cup {[priority |-> "high"]} :
    teardown(bulk_update_tasks(AdminId, {id}, b, NoFault, clock))
      = teardown(update_task(AdminId, id, b, NoFault, clock))

\* C28: an assignment or completion notification dispatched by create_task
\* or update_task belongs to a request whose changes are committed: none is
\* dispatched by a request that ends without persisting its mutation.
C28_NotifiedImpliesCommitted ==
  (/\ last.op \in {"create_task", "update_task"}
   /\ last.kinds \cap {"assignment", "completion"} # {})
  => last.committed

\* The 400 case of C28: a rejected request has dispatched no assignment or
\* completion notice. update_task violates it, since it dispatches before it
\* validates due_date.
C28_RejectedNotNotified ==
  (last.op \in {"create_task", "update_task"} /\ last.resp = 400)
  => last.kinds \cap {"assignment", "completion"} = {}

\* C29: generate_task_suggestions never returns an empty list: the result is
\* a non-empty list of parsed tasks, each with a title and marked as AI
\* generated, or the three fallback tasks.
C29_NeverEmpty ==
  trail # <<>>
    => /\ trail[1].value # <<>>
       /\ \/ trail[1].value = get_fallback_tasks
          \/ \A i \in 1..Len(trail[1].value) :
               /\ "title" \in DOMAIN trail[1].value[i]
               /\ trail[1].value[i].is_ai_generated

\* What does hold: every result is the fallback list or a list, possibly
\* empty, of titled tasks marked as AI generated.
C29_ParsedOrFallback ==
  trail # <<>>
    => \/ trail[1].value = get_fallback_tasks
       \/ \A i \in 1..Len(trail[1].value) :
            /\ "title" \in DOMAIN trail[1].value[i]
            /\ trail[1].value[i].is_ai_generated

BothCommitted == \A r \in Requests : obj[r].pc = "committed"

\* C30: when two update_task requests that each complete another task of the
\* same assignee run concurrently, after both have committed the assignee's
\* total_tasks_completed has grown by exactly 2.
C30_NoLostCompletion ==
  BothCommitted
    => Users[TeamId].total_tasks_completed = trail[1].total_tasks_completed + 2

\* What holds under every interleaving: both tasks are completed, and the
\* counter has grown by 1 or by 2.
C30_AtLeastOneCounted ==
  BothCommitted
    => /\ \A r \in Requests : Tasks[r].status = "completed"
       /\ Users[TeamId].total_tasks_completed - trail[1].total_tasks_completed \in {1, 2}

\* Requests that do not overlap are both counted.
C30_SerialCounted ==
  /\ BothCommitted
  /\ \E r \in Requests : obj[r].loaded.tasks[3 - r].status = "completed"
  => Users[TeamId].total_tasks_completed = trail[1].total_tasks_completed + 2

====
